---------------------------- MODULE Spec2Model ----------------------------
(***************************************************************************)
(* ROME workforce time tracking: the data-access layer (lib/supabase.ts,   *)
(* kept in src/unnamed/part_004) and the time-off workflow                 *)
(* (src/src/lib/timeoff.ts), as state machines.                            *)
(*                                                                         *)
(* Every exported async function is a call that suspends at its first      *)
(* await (the artificial delay in demo mode, the store round trip in live  *)
(* mode) and resumes later: a Call action does what the code does before   *)
(* the await and parks the call in `calls`, a Return action does the rest. *)
(* Code between two awaits runs without interleaving (one JS thread).      *)
(*                                                                         *)
(* Each component has its own specification over the shared variables:     *)
(*   SpecTimeOff   time-off requests                                       *)
(*   SpecVerify    dashboard verification codes                            *)
(*   SpecWorkers   the worker table                                        *)
(*   SpecPunch     punch history and weekly hours of a given punch table   *)
(*   SpecFormat    the duration formatter on a given duration              *)
(*   SpecClock     clock-in, clock-out and the clock status                *)
(***************************************************************************)
EXTENDS Integers, Sequences, FiniteSets, TLC

VARIABLES
    DEMO_MODE,        \* part_004:337 / timeoff.ts:346, fixed at process start
    now,              \* Date.now(), in ms
    calls,            \* in-flight async calls, one per slot
    returned,         \* the value the most recently completed call returned
    nextId,           \* rows created so far (the store's uuid generator; row identity)
    started,          \* calls made so far
    DEMO_REQUESTS,    \* timeoff.ts:29
    store_requests,   \* table time_off_requests
    approveCompleted, \* history: uids an approveRequest call has returned success for
    demoVerificationCodes,  \* part_004:673
    store_codes,      \* table verification_codes
    verified,         \* history: the issued codes verifyCode has returned success for
    issued,           \* history: the codes issued, in order of issue
    rejected,         \* history: the verifyCode calls that failed, in order of return
    DEMO_WORKERS,     \* part_004:340
    store_workers,    \* table workers
    store_punches,    \* table punches
    tz,               \* the runtime's offset from UTC, in ms (local = UTC + tz)
    demoState,        \* part_004:349
    demoPunches,      \* history: the punches the demo clock operations returned
    lastStatus,       \* history: per worker, the status reported since the last punch
    store_logs,       \* table production_logs
    entries,          \* the entries the production form hands to logProduction
    ms,               \* the duration handed to formatDuration
    value,            \* NumericKeypad's value prop, a sequence of digits
    isLoading,        \* NumericKeypad's isLoading prop
    onSubmit,         \* NumericKeypad's onSubmit prop: which function it is
    hasAutoSubmitted, \* NumericKeypad.tsx:24, hasAutoSubmitted.current
    timer,            \* the pending auto-submit timeouts: one at most
    completion        \* history: the last completed value, and the onSubmit calls since

timeOffVars == <<DEMO_REQUESTS, store_requests, approveCompleted>>

verifyVars == <<demoVerificationCodes, store_codes, verified, issued, rejected>>

workerVars == <<DEMO_WORKERS, store_workers>>

punchVars == <<store_punches, tz>>
formatVars == <<ms>>

clockVars == <<demoState, demoPunches, lastStatus>>

productionVars == <<store_logs, entries>>

keypadVars == <<value, isLoading, onSubmit, hasAutoSubmitted, timer, completion>>

vars == <<DEMO_MODE, now, calls, returned, nextId, started,
          timeOffVars, verifyVars, workerVars, punchVars, formatVars, clockVars, productionVars,
          keypadVars>>

\* what the functions of one component leave alone
frameTimeOff == <<verifyVars, workerVars, punchVars, formatVars, clockVars, productionVars, keypadVars>>
frameVerify == <<timeOffVars, workerVars, punchVars, formatVars, clockVars, productionVars, keypadVars>>
frameWorkers == <<timeOffVars, verifyVars, punchVars, formatVars, clockVars, productionVars, keypadVars>>
framePunch == <<timeOffVars, verifyVars, workerVars, formatVars, clockVars, productionVars, keypadVars>>
frameFormat == <<timeOffVars, verifyVars, workerVars, punchVars, clockVars, productionVars, keypadVars>>
frameClock == <<timeOffVars, verifyVars, workerVars, tz, formatVars, productionVars, keypadVars>>
frameProduction == <<timeOffVars, verifyVars, workerVars, punchVars, formatVars, clockVars, keypadVars>>
frameKeypad == <<DEMO_MODE, now, calls, returned, nextId, started, timeOffVars, verifyVars, workerVars,
                punchVars, formatVars, clockVars, productionVars>>

-----------------------------------------------------------------------------
(* Bounds *)

MaxTime == 1        \* clock ticks
MaxOps == 3         \* calls made in one behaviour
MaxPunches == 3     \* rows of the punch table
MaxHours == 2       \* whole hours in a formatted duration
MaxEntries == 3     \* entries handed to one logProduction call

-----------------------------------------------------------------------------
(* Shared helpers *)

NULL == "null"

Idle == [op |-> "idle"]

\* no status reported yet
NoStatus == [op |-> "none"]

\* At most two calls are in flight at once.
Slots == {1, 2}

\* Slots are interchangeable: a call takes the lowest free one.
FreeSlot(s) ==
    /\ calls[s] = Idle
    /\ \A t \in Slots : t < s => calls[t] # Idle

Range(seq) == {seq[i] : i \in 1..Len(seq)}

\* Array.prototype.filter keeps the order of the array.
RECURSIVE SelectSeqBy(_, _)
SelectSeqBy(seq, keep) ==
    IF seq = <<>> THEN <<>>
    ELSE (IF Head(seq) \in keep THEN <<Head(seq)>> ELSE <<>>) \o SelectSeqBy(Tail(seq), keep)

\* new Date().toISOString()
toISOString(t) == ToString(t)

\* Date.now() when the process starts: an instant long after the epoch
ProcessStart == 1000 * 1000

Tick(step, ticks) ==
    /\ now < ProcessStart + ticks * step
    /\ now' = now + step
    /\ UNCHANGED <<DEMO_MODE, calls, returned, nextId, started>>

Park(s, call) ==
    /\ FreeSlot(s)
    /\ started < MaxOps
    /\ started' = started + 1
    /\ calls' = [calls EXCEPT ![s] = call]

Finish(s, result) ==
    /\ calls' = [calls EXCEPT ![s] = Idle]
    /\ returned' = result
    /\ UNCHANGED started

-----------------------------------------------------------------------------
(* Time-off requests: src/src/lib/timeoff.ts *)

Workers == {"w1", "w2"}
Managers == {"m1"}
Reasons == {"", "late notice"}

DemoId(t) == [prefix |-> "demo-req-", n |-> t]
StoreId(n) == [prefix |-> "", n |-> n]
\* an id no request has
UnknownIds == {[prefix |-> "", n |-> 0]}

startsWithDemo(id) == id.prefix = "demo-req-"

\* The payload fields (type, dates, hours, comments) are copied into the
\* record and read by no operation; they are left out.
createDemoRequest(workerId) ==
    [uid |-> nextId + 1,
     id |-> DemoId(now),
     worker_id |-> workerId,
     status |-> "pending",
     reviewed_by |-> NULL,
     reviewed_at |-> NULL,
     denial_reason |-> NULL,
     created_at |-> toISOString(now)]

\* The row the time_off_requests table makes of an insert (migration 001).
StoreRequestRow(workerId) ==
    [uid |-> nextId + 1,
     id |-> StoreId(nextId + 1),
     worker_id |-> workerId,
     status |-> "pending",
     reviewed_by |-> NULL,
     reviewed_at |-> NULL,
     denial_reason |-> NULL,
     created_at |-> toISOString(now)]

AllRequestsOf(demo, store) == Range(demo) \cup Range(store)
AllRequests == AllRequestsOf(DEMO_REQUESTS, store_requests)

submitCall(s, workerId) ==
    /\ Park(s, [op |-> "submit", workerId |-> workerId])
    /\ UNCHANGED <<DEMO_MODE, now, returned, nextId, timeOffVars>>

\* `fallback` in a result is history: the store call of a live-mode call
\* returned an error or threw, and the call went on with the demo records.
demoFallbackSubmit(s) ==
    LET newRequest == createDemoRequest(calls[s].workerId) IN
    /\ DEMO_REQUESTS' = <<newRequest>> \o DEMO_REQUESTS
    /\ nextId' = nextId + 1
    /\ Finish(s, [op |-> "submit", success |-> TRUE, request |-> newRequest,
                  fallback |-> ~DEMO_MODE])
    /\ UNCHANGED <<DEMO_MODE, now, store_requests, approveCompleted>>

submitReturn(s) ==
    /\ calls[s].op = "submit"
    /\ IF DEMO_MODE
       THEN demoFallbackSubmit(s)
       ELSE \/ LET result == StoreRequestRow(calls[s].workerId) IN
               /\ store_requests' = Append(store_requests, result)
               /\ nextId' = nextId + 1
               /\ Finish(s, [op |-> "submit", success |-> TRUE, request |-> result,
                             fallback |-> FALSE])
               /\ UNCHANGED <<DEMO_MODE, now, DEMO_REQUESTS, approveCompleted>>
            \/ demoFallbackSubmit(s)     \* the insert returned an error or threw

ApplyUpdates(r, updates) ==
    [f \in DOMAIN r |-> IF f \in DOMAIN updates THEN updates[f] ELSE r[f]]

updateDemoRequest(requests, requestId, updates) ==
    [i \in 1..Len(requests) |->
        IF requests[i].id = requestId THEN ApplyUpdates(requests[i], updates)
        ELSE requests[i]]

\* supabase.from("time_off_requests").update(updates).eq("id", requestId)
StoreUpdateRequest(rows, requestId, updates) ==
    [i \in 1..Len(rows) |->
        IF rows[i].id = requestId THEN ApplyUpdates(rows[i], updates)
        ELSE rows[i]]

approveUpdates(managerId, at) ==
    [status |-> "approved", reviewed_by |-> managerId, reviewed_at |-> at]

denyUpdates(managerId, at, reason) ==
    [status |-> "denied", reviewed_by |-> managerId, reviewed_at |-> at,
     denial_reason |-> IF reason = "" THEN NULL ELSE reason]

RequestIds == {r.id : r \in AllRequests} \cup UnknownIds

UidsWithId(requestId) == {r.uid : r \in {q \in AllRequests : q.id = requestId}}

approveCall(s, requestId, managerId) ==
    /\ Park(s, [op |-> "approve", requestId |-> requestId,
                updates |-> approveUpdates(managerId, toISOString(now))])
    /\ UNCHANGED <<DEMO_MODE, now, returned, nextId, timeOffVars>>

denyCall(s, requestId, managerId, reason) ==
    /\ Park(s, [op |-> "deny", requestId |-> requestId,
                updates |-> denyUpdates(managerId, toISOString(now), reason)])
    /\ UNCHANGED <<DEMO_MODE, now, returned, nextId, timeOffVars>>

\* The shared tail of approveRequest and denyRequest: lines 257-286, 299-329.
\* The live update carries the same fields: its reviewed_at is read from the
\* clock in the same synchronous stretch as `updates` (lines 271, 313).
reviewReturn(s, op) ==
    LET c == calls[s] IN
    /\ c.op = op
    /\ \/ /\ DEMO_MODE \/ startsWithDemo(c.requestId)
          /\ DEMO_REQUESTS' = updateDemoRequest(DEMO_REQUESTS, c.requestId, c.updates)
          /\ UNCHANGED store_requests
          /\ Finish(s, [op |-> op, success |-> TRUE, requestId |-> c.requestId,
                        fallback |-> FALSE])
       \/ /\ ~DEMO_MODE /\ ~startsWithDemo(c.requestId)
          /\ \/ /\ store_requests' = StoreUpdateRequest(store_requests, c.requestId, c.updates)
                /\ UNCHANGED DEMO_REQUESTS
                /\ Finish(s, [op |-> op, success |-> TRUE, requestId |-> c.requestId,
                              fallback |-> FALSE])
             \/ \* the update returned an error or threw
                /\ DEMO_REQUESTS' = updateDemoRequest(DEMO_REQUESTS, c.requestId, c.updates)
                /\ UNCHANGED store_requests
                /\ Finish(s, [op |-> op, success |-> TRUE, requestId |-> c.requestId,
                              fallback |-> TRUE])
    /\ approveCompleted' =
          IF op = "approve" THEN approveCompleted \cup UidsWithId(c.requestId)
          ELSE approveCompleted
    /\ UNCHANGED <<DEMO_MODE, now, nextId>>

approveReturn(s) == reviewReturn(s, "approve")

denyReturn(s) == reviewReturn(s, "deny")

getAllPendingCall(s) ==
    /\ Park(s, [op |-> "getAllPending", approvedBefore |-> approveCompleted])
    /\ UNCHANGED <<DEMO_MODE, now, returned, nextId, timeOffVars>>

demoPending == SelectSeqBy(DEMO_REQUESTS, {r \in Range(DEMO_REQUESTS) : r.status = "pending"})

\* .eq("status", "pending").order("created_at", { ascending: true });
\* rows are inserted in clock order, so the table order is created_at order.
StorePending == SelectSeqBy(store_requests, {r \in Range(store_requests) : r.status = "pending"})

\* What a listing answers with: the demo records in demo mode; in live mode
\* the rows of the query or, when the query returned an error or threw, the
\* demo records.
listingAnswersNothingOnError(storeList, demoList) ==
    IF DEMO_MODE THEN {[requests |-> demoList, fallback |-> FALSE]}
    ELSE {[requests |-> storeList, fallback |-> FALSE],
          [requests |-> <<>>, fallback |-> TRUE]}
listingAnswers(storeList, demoList) ==
    IF DEMO_MODE THEN {[requests |-> demoList, fallback |-> FALSE]}
    ELSE {[requests |-> storeList, fallback |-> FALSE],
          [requests |-> demoList, fallback |-> TRUE]}

getAllPendingReturn(s) ==
    /\ calls[s].op = "getAllPending"
    /\ \E a \in listingAnswers(StorePending, demoPending) :
          Finish(s, [op |-> "getAllPending", success |-> TRUE, requests |-> a.requests,
                     fallback |-> a.fallback,
                     approvedBefore |-> calls[s].approvedBefore])
    /\ UNCHANGED <<DEMO_MODE, now, nextId, timeOffVars>>

\* Array.prototype.reverse (of a copy)
Reverse(seq) == [i \in 1..Len(seq) |-> seq[Len(seq) + 1 - i]]

\* .limit(n)
Limit(seq, n) == SubSeq(seq, 1, IF Len(seq) < n THEN Len(seq) ELSE n)

AllLimit == 50

\* `knownAtCall` is history: the ids of the worker's requests, of either
\* set, that submitTimeOffRequest had returned by then.
getMyCall(s, workerId) ==
    /\ Park(s, [op |-> "getMy", workerId |-> workerId,
                knownAtCall |-> {r.id : r \in {q \in AllRequests : q.worker_id = workerId}}])
    /\ UNCHANGED <<DEMO_MODE, now, returned, nextId, timeOffVars>>

\* DEMO_REQUESTS.filter((r) => r.worker_id === workerId)
demoMine(workerId) ==
    SelectSeqBy(DEMO_REQUESTS, {r \in Range(DEMO_REQUESTS) : r.worker_id = workerId})

\* .eq("worker_id", workerId).order("created_at", { ascending: false })
StoreMine(workerId) ==
    Reverse(SelectSeqBy(store_requests, {r \in Range(store_requests) : r.worker_id = workerId}))

getMyReturn(s) ==
    LET c == calls[s] IN
    /\ c.op = "getMy"
    /\ \E a \in listingAnswers(StoreMine(c.workerId), demoMine(c.workerId)) :
          Finish(s, [op |-> "getMy", success |-> TRUE, requests |-> a.requests,
                     fallback |-> a.fallback, workerId |-> c.workerId,
                     knownAtCall |-> c.knownAtCall])
    /\ UNCHANGED <<DEMO_MODE, now, nextId, timeOffVars>>

getAllCall(s) ==
    /\ Park(s, [op |-> "getAll"])
    /\ UNCHANGED <<DEMO_MODE, now, returned, nextId, timeOffVars>>

\* .order("created_at", { ascending: false }).limit(50)
StoreAll == Limit(Reverse(store_requests), AllLimit)

getAllReturn(s) ==
    /\ calls[s].op = "getAll"
    /\ \E a \in listingAnswers(StoreAll, DEMO_REQUESTS) :
          Finish(s, [op |-> "getAll", success |-> TRUE, requests |-> a.requests,
                     fallback |-> a.fallback])
    /\ UNCHANGED <<DEMO_MODE, now, nextId, timeOffVars>>


-----------------------------------------------------------------------------
(* Dashboard verification codes: part_004 lines 672-793 *)

\* Math.floor(100000 + Math.random() * 900000).toString(): two of the values
Codes == {"111111", "222222"}

ExpiryMs == 10 * 60 * 1000

\* the clock step of SpecVerify: six minutes
VerifyTickMs == 6 * 60 * 1000

MaxVerifyTicks == 2

ErrNoCode == "No code found. Please request a new one."
ErrInvalidCode == "Invalid code. Please try again."
ErrExpired == "Code expired. Please request a new one."
ErrSendFailed == "Failed to send code. Please try again."

sendVerificationCodeCall(s, workerId, code) ==
    /\ Park(s, [op |-> "sendVerificationCode", workerId |-> workerId, code |-> code,
                expiresAt |-> now + ExpiryMs])
    /\ UNCHANGED <<DEMO_MODE, now, returned, nextId, verifyVars>>

\* demoVerificationCodes[workerId] = { code, expiresAt }; `iss` names the
\* issue (history only: no code path reads it).
SetDemoCode(codes, workerId, entry) ==
    [w \in DOMAIN codes \cup {workerId} |-> IF w = workerId THEN entry ELSE codes[w]]

\* delete demoVerificationCodes[workerId]
DeleteDemoCode(codes, workerId) == [w \in DOMAIN codes \ {workerId} |-> codes[w]]

sendVerificationCodeReturn(s) ==
    LET c == calls[s] IN
    /\ c.op = "sendVerificationCode"
    /\ IF DEMO_MODE
       THEN /\ demoVerificationCodes' =
                  SetDemoCode(demoVerificationCodes, c.workerId,
                              [code |-> c.code, expiresAt |-> c.expiresAt, iss |-> nextId + 1])
            /\ nextId' = nextId + 1
            /\ issued' = Append(issued, [worker_id |-> c.workerId, code |-> c.code])
            /\ Finish(s, [op |-> c.op, success |-> TRUE])
            /\ UNCHANGED <<store_codes, verified, rejected>>
       ELSE \/ /\ store_codes' = Append(store_codes,
                      [id |-> nextId + 1, worker_id |-> c.workerId, code |-> c.code,
                       expires_at |-> c.expiresAt, used_at |-> NULL, created_at |-> now])
               /\ nextId' = nextId + 1
               /\ issued' = Append(issued, [worker_id |-> c.workerId, code |-> c.code])
               /\ Finish(s, [op |-> c.op, success |-> TRUE])
               /\ UNCHANGED <<demoVerificationCodes, verified, rejected>>
            \/ \* the insert returned an error
               /\ Finish(s, [op |-> c.op, success |-> FALSE, error |-> ErrSendFailed])
               /\ UNCHANGED <<nextId, verifyVars>>
    /\ UNCHANGED <<DEMO_MODE, now>>

\* `issuedAtCall` is history: how many codes had been issued by then.
verifyCodeCall(s, workerId, code) ==
    /\ Park(s, [op |-> "verifyCode", workerId |-> workerId, code |-> code,
                phase |-> "select", issuedAtCall |-> Len(issued)])
    /\ UNCHANGED <<DEMO_MODE, now, returned, nextId, verifyVars>>

\* A failure return of verifyCode: lines 754, 757, 760, 779, 783. It writes
\* nothing; `rejected` and `storeFailed` are history.
verifyCodeFailsClearing(s, error, storeFailed) ==
    /\ Finish(s, [op |-> calls[s].op, workerId |-> calls[s].workerId, success |-> FALSE,
                  error |-> error, storeFailed |-> storeFailed])
    /\ rejected' = Append(rejected, [worker_id |-> calls[s].workerId, error |-> error])
    /\ demoVerificationCodes' = DeleteDemoCode(demoVerificationCodes, calls[s].workerId)
    /\ UNCHANGED <<store_codes, verified, issued>>
verifyCodeFails(s, error, storeFailed) ==
    /\ Finish(s, [op |-> calls[s].op, workerId |-> calls[s].workerId, success |-> FALSE,
                  error |-> error, storeFailed |-> storeFailed])
    /\ rejected' = Append(rejected, [worker_id |-> calls[s].workerId, error |-> error])
    /\ UNCHANGED <<demoVerificationCodes, store_codes, verified, issued>>

\* Demo mode, after the delay: lines 752-764, one synchronous stretch.
verifyCodeDemo(s) ==
    LET c == calls[s]
        stored == demoVerificationCodes[c.workerId] IN
    /\ c.op = "verifyCode"
    /\ DEMO_MODE
    /\ IF c.workerId \notin DOMAIN demoVerificationCodes
       THEN verifyCodeFails(s, ErrNoCode, FALSE)
       ELSE IF stored.code # c.code
       THEN verifyCodeFails(s, ErrInvalidCode, FALSE)
       ELSE IF now > stored.expiresAt
       THEN verifyCodeFails(s, ErrExpired, FALSE)
       ELSE /\ demoVerificationCodes' = DeleteDemoCode(demoVerificationCodes, c.workerId)
            /\ verified' = Append(verified, stored.iss)
            /\ Finish(s, [op |-> c.op, workerId |-> c.workerId, success |-> TRUE])
            /\ UNCHANGED <<store_codes, issued, rejected>>
    /\ UNCHANGED <<DEMO_MODE, now, nextId>>

\* .eq("worker_id", workerId).eq("code", code).is("used_at", null)
\* .order("created_at", { ascending: false }).limit(1): a matching row no
\* other matching row is newer than (rows of one instant in either order).
SelectCodeRows(workerId, code) ==
    LET match == {i \in 1..Len(store_codes) :
                     /\ store_codes[i].worker_id = workerId
                     /\ store_codes[i].code = code
                     /\ store_codes[i].used_at = NULL} IN
    {store_codes[i] : i \in {j \in match :
        \A k \in match : store_codes[k].created_at <= store_codes[j].created_at}}

\* Live mode, the select has answered: lines 768-790 up to the second await.
verifyCodeSelect(s) ==
    LET c == calls[s] IN
    /\ c.op = "verifyCode"
    /\ c.phase = "select"
    /\ ~DEMO_MODE
    /\ \/ \* no row: .single() answers with an error
          /\ SelectCodeRows(c.workerId, c.code) = {}
          /\ verifyCodeFails(s, ErrInvalidCode, FALSE)
       \/ \* the query itself failed
          verifyCodeFails(s, ErrInvalidCode, TRUE)
       \/ \E data \in SelectCodeRows(c.workerId, c.code) :
             IF data.expires_at < now
             THEN verifyCodeFails(s, ErrExpired, FALSE)
             ELSE /\ calls' = [calls EXCEPT ![s] = [c EXCEPT !.phase = "update"] @@ [id |-> data.id]]
                  /\ UNCHANGED <<returned, started, verifyVars>>
    /\ UNCHANGED <<DEMO_MODE, now, nextId>>

\* .update({ used_at: new Date().toISOString() }).eq("id", data.id)
MarkUsed(rows, id, at) ==
    [i \in 1..Len(rows) |-> IF rows[i].id = id THEN [rows[i] EXCEPT !.used_at = at] ELSE rows[i]]

\* Live mode, the update has answered: lines 787-792. Its result is not read.
verifyCodeUpdate(s) ==
    LET c == calls[s] IN
    /\ c.op = "verifyCode"
    /\ c.phase = "update"
    /\ \/ store_codes' = MarkUsed(store_codes, c.id, toISOString(now))
       \/ UNCHANGED store_codes      \* the update returned an error
    /\ verified' = Append(verified, c.id)
    /\ Finish(s, [op |-> c.op, workerId |-> c.workerId, success |-> TRUE])
    /\ UNCHANGED <<DEMO_MODE, now, nextId, demoVerificationCodes, issued, rejected>>

-----------------------------------------------------------------------------
(* The worker table: part_004 lines 339-346, 554-605; reset.sql lines 23-31 *)

\* Strings the code inspects character by character (the PIN, the name) are
\* sequences of one-character strings.
Digits == {"0", "1", "2", "3", "4", "5", "6", "7", "8", "9"}

PinLength == 6

\* /^\d{6}$/.test(pin)
isSixDigits(pin) == Len(pin) = PinLength /\ \A i \in 1..Len(pin) : pin[i] \in Digits

WhiteSpace == {" ", "\t", "\n"}

\* String.prototype.trim
RECURSIVE trim(_)
trim(str) ==
    IF str = <<>> THEN str
    ELSE IF Head(str) \in WhiteSpace THEN trim(Tail(str))
    ELSE IF str[Len(str)] \in WhiteSpace THEN trim(SubSeq(str, 1, Len(str) - 1))
    ELSE str

WorkerDemoId(n) == [prefix |-> "demo-", n |-> n]

SeedWorkers ==
    <<[id |-> WorkerDemoId(1), pin |-> <<"1", "2", "3", "4", "5", "6">>,
       full_name |-> <<"J", "o", "h", "n", " ", "S", "m", "i", "t", "h">>, role |-> "worker"],
      [id |-> WorkerDemoId(2), pin |-> <<"2", "3", "4", "5", "6", "7">>,
       full_name |-> <<"M", "a", "r", "i", "a", " ", "G", "a", "r", "c", "i", "a">>, role |-> "worker"],
      [id |-> WorkerDemoId(3), pin |-> <<"3", "4", "5", "6", "7", "8">>,
       full_name |-> <<"J", "a", "m", "e", "s", " ", "W", "i", "l", "s", "o", "n">>, role |-> "supervisor"],
      [id |-> WorkerDemoId(4), pin |-> <<"4", "5", "6", "7", "8", "9">>,
       full_name |-> <<"S", "a", "r", "a", "h", " ", "J", "o", "h", "n", "s", "o", "n">>, role |-> "worker"],
      [id |-> WorkerDemoId(5), pin |-> <<"5", "6", "7", "8", "9", "0">>,
       full_name |-> <<"M", "i", "c", "h", "a", "e", "l", " ", "B", "r", "o", "w", "n">>, role |-> "worker"]>>

\* The rows reset.sql seeds the workers table with (lines 94-99).
SeedRows ==
    [i \in 1..Len(SeedWorkers) |->
        [id |-> StoreId(0 - i), pin |-> SeedWorkers[i].pin,
         full_name |-> SeedWorkers[i].full_name, role |-> SeedWorkers[i].role,
         is_active |-> TRUE]]

Pins == {<<"1", "2", "3", "4", "5", "6">>, <<"6", "5", "4", "3", "2", "1">>,
         <<"1", "2", "3", "4", "5">>, <<"1", "2", "3", "4", "5", "x">>,
         <<"1", "2", "3", "4", "5", "6", "7">>}

Names == {<<"A", "n", "n">>, <<" ", "B", "o", " ">>, <<" ">>, <<>>}

Roles == {"worker", "manager"}

ErrPinFormat == "PIN must be exactly 6 digits."
ErrNameRequired == "Name is required."
ErrPinInUse == "This PIN is already in use."
ErrCreateFailed == "Failed to create worker. Please try again."

\* DEMO_WORKERS.some((w) => w.pin === pin)
pinInUseWrongField(workers, pin) == \E i \in 1..Len(workers) : workers[i].full_name = pin
pinInUse(workers, pin) == \E i \in 1..Len(workers) : workers[i].pin = pin

\* pin CHAR(6) NOT NULL UNIQUE: the insert is refused with SQLSTATE 23505
\* when a row holds the pin.
UniqueViolation(rows, pin) == \E i \in 1..Len(rows) : rows[i].pin = pin

\* lines 597-602
insertErrorMessageAnyCode(code) == ErrCreateFailed
insertErrorMessage(code) == IF code = "23505" THEN ErrPinInUse ELSE ErrCreateFailed

PinTaken(pin) == IF DEMO_MODE THEN pinInUse(DEMO_WORKERS, pin) ELSE UniqueViolation(store_workers, pin)

\* Lines 554-562: the validation returns before any await and touches no
\* state. `takenAtCall` is history: whether the PIN was some worker's then.
validationErrorNameFirst(pin, fullName) ==
    IF trim(fullName) = <<>> THEN ErrNameRequired ELSE ErrPinFormat
validationError(pin, fullName) ==
    IF ~isSixDigits(pin) THEN ErrPinFormat ELSE ErrNameRequired

createWorkerReject(pin, fullName) ==
    /\ ~isSixDigits(pin) \/ trim(fullName) = <<>>
    /\ started < MaxOps
    /\ started' = started + 1
    /\ returned' = [op |-> "createWorker", pin |-> pin, fullName |-> fullName,
                    success |-> FALSE, error |-> validationError(pin, fullName),
                    code |-> NULL, takenAtCall |-> PinTaken(pin), awaited |-> FALSE]
    /\ UNCHANGED <<DEMO_MODE, now, calls, nextId, workerVars>>

\* Lines 564-566, 587: a valid call suspends.
createWorkerCall(s, pin, fullName, role) ==
    /\ isSixDigits(pin)
    /\ trim(fullName) # <<>>
    /\ Park(s, [op |-> "createWorker", pin |-> pin, fullName |-> fullName,
                role |-> role, takenAtCall |-> PinTaken(pin)])
    /\ UNCHANGED <<DEMO_MODE, now, returned, nextId, workerVars>>

createWorkerDone(s, success, error, code) ==
    Finish(s, [op |-> "createWorker", pin |-> calls[s].pin, success |-> success,
               error |-> error, code |-> code, takenAtCall |-> calls[s].takenAtCall,
               awaited |-> TRUE])

\* Demo mode, after the delay: lines 568-583, one synchronous stretch.
createWorkerDemo(s) ==
    LET c == calls[s]
        newWorker == [id |-> WorkerDemoId(now), pin |-> c.pin,
                      full_name |-> trim(c.fullName), role |-> c.role] IN
    /\ c.op = "createWorker"
    /\ DEMO_MODE
    /\ IF pinInUse(DEMO_WORKERS, c.pin)
       THEN /\ createWorkerDone(s, FALSE, ErrPinInUse, NULL)
            /\ UNCHANGED DEMO_WORKERS
       ELSE /\ DEMO_WORKERS' = Append(DEMO_WORKERS, newWorker)
            /\ createWorkerDone(s, TRUE, NULL, NULL)
    /\ UNCHANGED <<DEMO_MODE, now, nextId, store_workers>>

\* Live mode, the insert has answered: lines 587-604.
createWorkerLive(s) ==
    LET c == calls[s]
        row == [id |-> StoreId(nextId + 1), pin |-> c.pin, full_name |-> trim(c.fullName),
                role |-> c.role, is_active |-> TRUE] IN
    /\ c.op = "createWorker"
    /\ ~DEMO_MODE
    /\ \/ /\ UniqueViolation(store_workers, c.pin)
          /\ createWorkerDone(s, FALSE, insertErrorMessage("23505"), "23505")
          /\ UNCHANGED <<nextId, store_workers>>
       \/ /\ ~UniqueViolation(store_workers, c.pin)
          /\ store_workers' = Append(store_workers, row)
          /\ nextId' = nextId + 1
          /\ createWorkerDone(s, TRUE, NULL, NULL)
       \/ \* the request failed for another reason (the store cannot be reached)
          /\ createWorkerDone(s, FALSE, insertErrorMessage("other"), "other")
          /\ UNCHANGED <<nextId, store_workers>>
    /\ UNCHANGED <<DEMO_MODE, now, DEMO_WORKERS>>

\* Authentication: part_004 lines 397-434

AdminPin == <<"0", "0", "0", "0", "0", "0">>

AdminWorker ==
    [id |-> "admin",
     full_name |-> <<"A", "d", "m", "i", "n", "i", "s", "t", "r", "a", "t", "o", "r">>,
     role |-> "admin"]

ErrInvalidPin == "Invalid PIN. Please try again."

\* the PINs entered: the admin PIN, two seeded ones and one nobody has
AuthPins == {AdminPin, SeedWorkers[1].pin, SeedWorkers[2].pin, <<"6", "5", "4", "3", "2", "1">>}

\* pin === "000000"
isAdminPinNever(pin) == FALSE
isAdminPin(pin) == pin = AdminPin

\* { id, full_name, role } of a worker
identityOf(w) == [id |-> w.id, full_name |-> w.full_name, role |-> w.role]

\* DEMO_WORKERS.find((w) => w.pin === pin): the positions that match
demoFind(pin) == {i \in 1..Len(DEMO_WORKERS) : DEMO_WORKERS[i].pin = pin}

\* .eq("pin", pin).eq("is_active", true)
selectByPinAnyActivity(pin) == {i \in 1..Len(store_workers) : store_workers[i].pin = pin}
selectActiveByPin(pin) ==
    {i \in 1..Len(store_workers) : store_workers[i].pin = pin /\ store_workers[i].is_active}

\* Lines 399-405: the admin PIN returns before any await.
authenticateAdmin(pin) ==
    /\ isAdminPin(pin)
    /\ started < MaxOps
    /\ started' = started + 1
    /\ returned' = [op |-> "authenticateWorker", pin |-> pin, success |-> TRUE,
                    worker |-> AdminWorker, isAdmin |-> TRUE, awaited |-> FALSE]
    /\ UNCHANGED <<DEMO_MODE, now, calls, nextId, workerVars>>

\* Lines 407-409, 422: any other PIN suspends.
authenticateWorkerCall(s, pin) ==
    /\ ~isAdminPin(pin)
    /\ Park(s, [op |-> "authenticateWorker", pin |-> pin])
    /\ UNCHANGED <<DEMO_MODE, now, returned, nextId, workerVars>>

\* `storeFailed` is history: the lookup was not answered.
authenticateWorkerDone(s, found, storeFailed) ==
    Finish(s, [op |-> "authenticateWorker", pin |-> calls[s].pin, awaited |-> TRUE,
               storeFailed |-> storeFailed]
              @@ IF found = <<>>
                 THEN [success |-> FALSE, error |-> ErrInvalidPin]
                 ELSE [success |-> TRUE, worker |-> identityOf(found[1]), isAdmin |-> FALSE])

\* Demo mode, after the delay: lines 410-418.
authenticateWorkerDemo(s) ==
    LET c == calls[s]
        hits == demoFind(c.pin) IN
    /\ c.op = "authenticateWorker"
    /\ DEMO_MODE
    /\ authenticateWorkerDone(s,
          IF hits = {} THEN <<>>
          ELSE <<DEMO_WORKERS[CHOOSE i \in hits : \A j \in hits : i <= j]>>, FALSE)
    /\ UNCHANGED <<DEMO_MODE, now, nextId, workerVars>>

\* Live mode, the select has answered: lines 422-433. .single() answers with
\* an error unless exactly one row matches.
authenticateWorkerLive(s) ==
    LET c == calls[s]
        hits == selectActiveByPin(c.pin) IN
    /\ c.op = "authenticateWorker"
    /\ ~DEMO_MODE
    /\ \/ authenticateWorkerDone(s,
             IF Cardinality(hits) = 1 THEN <<store_workers[CHOOSE i \in hits : TRUE]>> ELSE <<>>,
             FALSE)
       \/ \* the query failed
          authenticateWorkerDone(s, <<>>, TRUE)
    /\ UNCHANGED <<DEMO_MODE, now, nextId, workerVars>>

-----------------------------------------------------------------------------
(* Punch history and weekly hours: part_004 lines 795-911 *)

MsPerMinute == 60 * 1000
MsPerHour == 1000 * 60 * 60
DayMs == 24 * MsPerHour

\* An ISO timestamp string "YYYY-MM-DDTHH:MM:SS.sssZ" is its two segments:
\* the date (as a day number since 1970-01-01) and the time within the day.
\* The store renders timestamptz columns in UTC, as toISOString does.
toISO(t) == [date |-> t \div DayMs, ms |-> t % DayMs]

\* the value null in a timestamp-typed field
NoTime == [null |-> TRUE]

\* punch.timestamp.split("T")[0]
dateSegment(ts) == ts.date

\* new Date(isoString).getTime()
getTime(ts) == ts.date * DayMs + ts.ms

\* new Date("YYYY-MM-DD").getTime(): a date-only string is UTC midnight
dateOnlyTime(date) == date * DayMs

\* Date.prototype.setHours(0, 0, 0, 0): local midnight of the instant's local day
localMidnight(t) == ((t + tz) \div DayMs) * DayMs - tz

\* Date.prototype.getDay(): the local weekday, 0 = Sunday (1970-01-01 was a Thursday)
getDay(t) == (((t + tz) \div DayMs) + 4) % 7

\* toLocaleDateString("en-US", { weekday: "short" })
ShortDays == <<"Sun", "Mon", "Tue", "Wed", "Thu", "Fri", "Sat">>
weekdayShort(t) == ShortDays[getDay(t) + 1]

\* lines 807-809
historyStartDate(days) == localMidnight(now - days * DayMs)

\* lines 882-886
startOfWeekNoSundayCase(t) == localMidnight(t - (getDay(t) - 1) * DayMs)
startOfWeek(t) ==
    localMidnight(t - (IF getDay(t) = 0 THEN 6 ELSE getDay(t) - 1) * DayMs)

\* .eq("worker_id", workerId).gte("timestamp", startDate)
\* .order("timestamp", { ascending: true }): the table is kept in clock order.
fetchPunches(workerId, startDate) ==
    LET keep == {r \in Range(store_punches) :
                    r.worker_id = workerId /\ r.timestamp >= startDate}
        rows == SelectSeqBy(store_punches, keep) IN
    [i \in 1..Len(rows) |-> [type |-> rows[i].type, timestamp |-> toISO(rows[i].timestamp)]]

\* The keys of punchMap in insertion order: lines 850-854.
RECURSIVE mapKeys(_, _)
mapKeys(data, seen) ==
    IF data = <<>> THEN <<>>
    ELSE LET date == dateSegment(Head(data).timestamp) IN
         IF date \in seen THEN mapKeys(Tail(data), seen)
         ELSE <<date>> \o mapKeys(Tail(data), seen \cup {date})

\* entry.ins / entry.outs of a date: lines 855-860
RECURSIVE entryOf(_, _, _)
entryOf(data, date, isIn) ==
    IF data = <<>> THEN <<>>
    ELSE (IF dateSegment(Head(data).timestamp) = date /\ (Head(data).type = "IN") = isIn
          THEN <<Head(data).timestamp>> ELSE <<>>) \o entryOf(Tail(data), date, isIn)

\* lines 867-870
pairTotalMsClamped(clockIn, clockOut) ==
    IF clockIn # NoTime /\ clockOut # NoTime /\ getTime(clockOut) > getTime(clockIn)
    THEN getTime(clockOut) - getTime(clockIn) ELSE 0
pairTotalMsOutOnly(clockIn, clockOut) ==
    IF clockOut # NoTime
    THEN getTime(clockOut) - (IF clockIn = NoTime THEN 0 ELSE getTime(clockIn)) ELSE 0
pairTotalMs(clockIn, clockOut) ==
    IF clockIn # NoTime /\ clockOut # NoTime
    THEN getTime(clockOut) - getTime(clockIn) ELSE 0

\* lines 864-872
punchPair(data, date) ==
    LET ins == entryOf(data, date, TRUE)
        outs == entryOf(data, date, FALSE)
        clockIn == IF ins = <<>> THEN NoTime ELSE ins[1]
        clockOut == IF outs = <<>> THEN NoTime ELSE outs[Len(outs)] IN
    [date |-> date, clockIn |-> clockIn, clockOut |-> clockOut,
     totalMs |-> pairTotalMs(clockIn, clockOut)]

\* String.prototype.localeCompare on two date strings: equal-length digit
\* strings compare as the day numbers do.
localeCompare(x, y) == IF x < y THEN 0 - 1 ELSE IF x > y THEN 1 ELSE 0

\* the comparator of line 875
compareDatesSwapped(a, b) == localeCompare(a.date, b.date)
compareDates(a, b) == localeCompare(b.date, a.date)

\* Array.prototype.sort is stable: a pair goes before the first one the
\* comparator puts it before.
RECURSIVE insertSorted(_, _)
insertSorted(pair, sorted) ==
    IF sorted = <<>> THEN <<pair>>
    ELSE IF compareDates(pair, Head(sorted)) < 0 THEN <<pair>> \o sorted
    ELSE <<Head(sorted)>> \o insertSorted(pair, Tail(sorted))

RECURSIVE sortHistory(_)
sortHistory(history) ==
    IF history = <<>> THEN <<>>
    ELSE insertSorted(history[Len(history)],
                      sortHistory(SubSeq(history, 1, Len(history) - 1)))

\* lines 847-877
pairPunches(data) ==
    LET keys == mapKeys(data, {}) IN
    sortHistory([i \in 1..Len(keys) |-> punchPair(data, keys[i])])

\* Demo mode, lines 814-832: a fabricated pair for each of the last
\* min(days, 7) days that is locally a weekday; rnd[i] holds the two
\* Math.random() draws of day i, as minutes.
RandomIn == {0, 14}
RandomOut == {0, 44}

RECURSIVE demoHistory(_, _, _)
demoHistory(i, last, rnd) ==
    IF i > last THEN <<>>
    ELSE LET date == now - i * DayMs
             clockIn == localMidnight(date) + 8 * MsPerHour + rnd[i][1] * MsPerMinute
             clockOut == localMidnight(date) + 16 * MsPerHour + rnd[i][2] * MsPerMinute IN
         (IF getDay(date) # 0 /\ getDay(date) # 6
          THEN <<[date |-> dateSegment(toISO(date)), clockIn |-> toISO(clockIn),
                  clockOut |-> toISO(clockOut), totalMs |-> clockOut - clockIn]>>
          ELSE <<>>) \o demoHistory(i + 1, last, rnd)

Min(a, b) == IF a < b THEN a ELSE b

\* What getPunchHistory(workerId, days) can return, given the startDate its
\* call computed. `data` is history: the rows the store answered with.
punchHistoryResults(workerId, days, startDate) ==
    IF DEMO_MODE
    THEN {[success |-> TRUE, history |-> demoHistory(1, Min(days, 7), rnd), data |-> <<>>] :
             rnd \in [1..Min(days, 7) -> RandomIn \X RandomOut]}
    ELSE {[success |-> TRUE, history |-> pairPunches(fetchPunches(workerId, startDate)),
           data |-> fetchPunches(workerId, startDate)],
          [success |-> FALSE, error |-> "Failed to load punch history."]}

HistoryDays == {1, 7}

getPunchHistoryCall(s, workerId, days) ==
    /\ Park(s, [op |-> "getPunchHistory", workerId |-> workerId, days |-> days,
                startDate |-> historyStartDate(days)])
    /\ UNCHANGED <<DEMO_MODE, now, returned, nextId, punchVars>>

getPunchHistoryReturn(s) ==
    LET c == calls[s] IN
    /\ c.op = "getPunchHistory"
    /\ \E result \in punchHistoryResults(c.workerId, c.days, c.startDate) :
          Finish(s, [op |-> c.op] @@ result)
    /\ UNCHANGED <<DEMO_MODE, now, nextId, punchVars>>

\* hours as exact fractions: ms / (1000 * 60 * 60)
hoursOf(total) == [num |-> total, den |-> MsPerHour]

\* The loop of lines 897-904 from pair i on, given the result so far.
RECURSIVE weeklyLoop(_, _, _, _)
weeklyLoop(history, i, weekStart, acc) ==
    IF i > Len(history) THEN acc
    ELSE LET punch == history[i]
             punchDate == dateOnlyTime(punch.date)
             dayName == weekdayShort(punchDate)
             before == IF dayName \in DOMAIN acc.dailyHours
                       THEN acc.dailyHours[dayName].num ELSE 0 IN
         IF punchDate >= weekStart
         THEN weeklyLoop(history, i + 1, weekStart,
                  [totalMs |-> acc.totalMs + punch.totalMs,
                   dailyHours |-> [d \in DOMAIN acc.dailyHours \cup {dayName} |->
                       IF d = dayName THEN hoursOf(before + punch.totalMs)
                       ELSE acc.dailyHours[d]]])
         ELSE weeklyLoop(history, i + 1, weekStart, acc)

NoHours == [d \in {} |-> hoursOf(0)]

\* lines 890-910
weeklyHours(result, weekStart) ==
    IF ~result.success THEN [totalMs |-> 0, totalHours |-> hoursOf(0), dailyHours |-> NoHours]
    ELSE LET sums == weeklyLoop(result.history, 1, weekStart,
                                [totalMs |-> 0, dailyHours |-> NoHours]) IN
         [totalMs |-> sums.totalMs, totalHours |-> hoursOf(sums.totalMs),
          dailyHours |-> sums.dailyHours]

\* lines 880-888: the week start and the nested getPunchHistory(workerId, 7)
\* call are computed before the await. `today` is history: the local
\* calendar date of the call.
getWeeklyHoursCall(s, workerId) ==
    /\ Park(s, [op |-> "getWeeklyHours", workerId |-> workerId,
                startOfWeek |-> startOfWeek(now), startDate |-> historyStartDate(7),
                today |-> (now + tz) \div DayMs])
    /\ UNCHANGED <<DEMO_MODE, now, returned, nextId, punchVars>>

getWeeklyHoursReturn(s) ==
    LET c == calls[s] IN
    /\ c.op = "getWeeklyHours"
    /\ \E result \in punchHistoryResults(c.workerId, 7, c.startDate) :
          Finish(s, [op |-> c.op, today |-> c.today,
                     history |-> IF result.success THEN result.history ELSE <<>>]
                    @@ weeklyHours(result, c.startOfWeek))
    /\ UNCHANGED <<DEMO_MODE, now, nextId, punchVars>>

-----------------------------------------------------------------------------
(* Duration formatting: part_004 lines 382-391 *)

\* The JS operator %: the remainder takes the sign of the dividend.
remainder(a, b) == IF a >= 0 THEN a % b ELSE 0 - ((0 - a) % b)

formatDurationRounded(d) ==
    LET totalSeconds == (d + 500) \div 1000
        hours == totalSeconds \div 3600
        minutes == remainder(totalSeconds, 3600) \div 60 IN
    IF hours > 0 THEN ToString(hours) \o "h " \o ToString(minutes) \o "m"
    ELSE ToString(minutes) \o " minutes"

formatDuration(d) ==
    LET totalSeconds == d \div 1000
        hours == totalSeconds \div 3600
        minutes == remainder(totalSeconds, 3600) \div 60 IN
    IF hours > 0 THEN ToString(hours) \o "h " \o ToString(minutes) \o "m"
    ELSE ToString(minutes) \o " minutes"

\* formatDuration(ms), a synchronous call
formatDurationCall ==
    /\ returned = Idle
    /\ returned' = [op |-> "formatDuration", text |-> formatDuration(ms)]
    /\ UNCHANGED <<DEMO_MODE, now, calls, nextId, started, ms>>

-----------------------------------------------------------------------------
(* Clock state and punches: part_004 lines 349, 436-548 *)

StatusDelay == 200
ClockDelay == 600

\* the clock step of SpecClock: half an hour
ClockTickMs == 30 * MsPerMinute

ErrClockIn == "Failed to clock in. Please try again."
ErrClockOut == "Failed to clock out. Please try again."

\* the value null where a punch is expected
NoPunch == [null |-> TRUE]

\* setTimeout: the delays of demo mode end in the order they fall due, and
\* in the order they were started when they fall due together.
TimerFires(s) ==
    \A t \in Slots \ {s} :
        "due" \in DOMAIN calls[t] =>
            ~ \/ calls[t].due < calls[s].due
              \/ calls[t].due = calls[s].due /\ calls[t].seq < calls[s].seq

\* demoState[workerId] = entry
SetDemoStateOfAll(state, workerId, entry) == [w \in DOMAIN state \cup {workerId} |-> entry]
SetDemoState(state, workerId, entry) ==
    [w \in DOMAIN state \cup {workerId} |-> IF w = workerId THEN entry ELSE state[w]]

\* the rows of a worker, and those of them no other is newer than
PunchesOf(rows, workerId) == SelectSeqBy(rows, {r \in Range(rows) : r.worker_id = workerId})

LatestOfAscending(rows) == {r \in Range(rows) : \A q \in Range(rows) : q.timestamp >= r.timestamp}
LatestOf(rows) == {r \in Range(rows) : \A q \in Range(rows) : q.timestamp <= r.timestamp}

getWorkerStatusCall(s, workerId) ==
    /\ Park(s, [op |-> "getWorkerStatus", workerId |-> workerId,
                due |-> now + StatusDelay, seq |-> started])
    /\ UNCHANGED <<DEMO_MODE, now, returned, nextId, store_punches, clockVars>>

\* `storeFailed` is history: the query was not answered.
getWorkerStatusDoneResetting(s, isClockedIn, clockInTime, lastPunch, storeFailed) ==
    /\ Finish(s, [op |-> "getWorkerStatus", workerId |-> calls[s].workerId,
                  isClockedIn |-> isClockedIn, clockInTime |-> clockInTime,
                  lastPunch |-> lastPunch, storeFailed |-> storeFailed])
    /\ lastStatus' = [lastStatus EXCEPT ![calls[s].workerId] =
                         [isClockedIn |-> isClockedIn, clockInTime |-> clockInTime,
                          storeFailed |-> storeFailed,
                          repeated |-> lastStatus[calls[s].workerId] # NoStatus]]
    /\ demoState' = [w \in DOMAIN demoState |-> [isClockedIn |-> FALSE, clockInTime |-> NoTime]]
    /\ UNCHANGED <<DEMO_MODE, now, nextId, store_punches, demoPunches>>

getWorkerStatusDone(s, isClockedIn, clockInTime, lastPunch, storeFailed) ==
    /\ Finish(s, [op |-> "getWorkerStatus", workerId |-> calls[s].workerId,
                  isClockedIn |-> isClockedIn, clockInTime |-> clockInTime,
                  lastPunch |-> lastPunch, storeFailed |-> storeFailed])
    /\ lastStatus' = [lastStatus EXCEPT ![calls[s].workerId] =
                         [isClockedIn |-> isClockedIn, clockInTime |-> clockInTime,
                          storeFailed |-> storeFailed,
                          repeated |-> lastStatus[calls[s].workerId] # NoStatus]]
    /\ UNCHANGED <<DEMO_MODE, now, nextId, store_punches, demoState, demoPunches>>

\* Demo mode, after the delay: lines 440-445.
getWorkerStatusDemo(s) ==
    LET c == calls[s] IN
    /\ c.op = "getWorkerStatus"
    /\ DEMO_MODE
    /\ TimerFires(s)
    /\ IF c.workerId \in DOMAIN demoState
       THEN getWorkerStatusDone(s, demoState[c.workerId].isClockedIn,
                                demoState[c.workerId].clockInTime, NoPunch, FALSE)
       ELSE getWorkerStatusDone(s, FALSE, NoTime, NoPunch, FALSE)

\* Live mode, the select has answered: lines 449-471.
\* .order("timestamp", { ascending: false }).limit(1).single(): a row of the
\* worker no other is newer than; an error when the worker has no row.
getWorkerStatusLive(s) ==
    LET c == calls[s]
        latest == LatestOf(PunchesOf(store_punches, c.workerId)) IN
    /\ c.op = "getWorkerStatus"
    /\ ~DEMO_MODE
    /\ \/ /\ latest = {}
          /\ getWorkerStatusDone(s, FALSE, NoTime, NoPunch, FALSE)
       \/ \E row \in latest :
             LET data == [type |-> row.type, timestamp |-> toISO(row.timestamp)] IN
             getWorkerStatusDone(s, data.type = "IN",
                                 IF data.type = "IN" THEN data.timestamp ELSE NoTime,
                                 data, FALSE)
       \/ \* the query failed
          getWorkerStatusDone(s, FALSE, NoTime, NoPunch, TRUE)

\* history: a clock operation of the worker is in flight when this one is made
overlaps(workerId) ==
    \E t \in Slots : calls[t].op \in {"clockIn", "clockOut"} /\ calls[t].workerId = workerId

clockInCall(s, workerId) ==
    /\ Park(s, [op |-> "clockIn", workerId |-> workerId, clockInTime |-> toISO(now),
                due |-> now + ClockDelay, seq |-> started, overlaps |-> overlaps(workerId)])
    /\ UNCHANGED <<DEMO_MODE, now, returned, nextId, store_punches, clockVars>>

\* lines 512-519
timeWorkedMsNoNullCheck(clockInTime, clockOutTime) ==
    clockOutTime - (IF clockInTime # NoTime THEN getTime(clockInTime) ELSE 0)
timeWorkedMs(clockInTime, clockOutTime) ==
    IF clockInTime # NoTime THEN clockOutTime - getTime(clockInTime) ELSE 0

timeWorkedFormatted(clockInTime, clockOutTime) ==
    IF clockInTime # NoTime
    THEN formatDuration(timeWorkedMs(clockInTime, clockOutTime)) ELSE "Unknown"

\* the last-known clock-in times callers hand to clockOut: none, and a
\* quarter of an hour after the process started
ClockInTimes == {NoTime, toISO(ProcessStart + 15 * MsPerMinute)}

clockOutCall(s, workerId, clockInTime) ==
    /\ Park(s, [op |-> "clockOut", workerId |-> workerId, clockInTime |-> clockInTime,
                clockOutTime |-> now,
                timeWorkedMs |-> timeWorkedMs(clockInTime, now),
                timeWorked |-> timeWorkedFormatted(clockInTime, now),
                due |-> now + ClockDelay, seq |-> started, overlaps |-> overlaps(workerId)])
    /\ UNCHANGED <<DEMO_MODE, now, returned, nextId, store_punches, clockVars>>

\* what a successful clockIn or clockOut returns
clockResult(c, punch) ==
    [op |-> c.op, workerId |-> c.workerId, success |-> TRUE, punch |-> punch,
     overlaps |-> c.overlaps]
        @@ IF c.op = "clockOut"
           THEN [timeWorked |-> c.timeWorked, timeWorkedMs |-> c.timeWorkedMs,
                 clockInTime |-> c.clockInTime, clockOutTime |-> c.clockOutTime]
           ELSE [called |-> c.clockInTime]

\* demoState[workerId] = { isClockedIn, clockInTime }: lines 484 and 524
demoClockEntryAtWrite(c) ==
    IF c.op = "clockIn"
    THEN [isClockedIn |-> TRUE, clockInTime |-> toISO(now)]
    ELSE [isClockedIn |-> FALSE, clockInTime |-> NoTime]
demoClockEntry(c) ==
    IF c.op = "clockIn"
    THEN [isClockedIn |-> TRUE, clockInTime |-> c.clockInTime]
    ELSE [isClockedIn |-> FALSE, clockInTime |-> NoTime]

\* Demo mode, after the delay: lines 484-488 and 524-530.
clockDemo(s, op) ==
    LET c == calls[s]
        type == IF op = "clockIn" THEN "IN" ELSE "OUT"
        at == IF op = "clockIn" THEN c.clockInTime ELSE toISO(c.clockOutTime)
        punch == [id |-> "demo-punch", worker_id |-> c.workerId, type |-> type,
                  timestamp |-> at] IN
    /\ c.op = op
    /\ DEMO_MODE
    /\ TimerFires(s)
    /\ demoState' = SetDemoState(demoState, c.workerId, demoClockEntry(c))
    /\ demoPunches' = Append(demoPunches,
                        [worker_id |-> c.workerId, type |-> type, timestamp |-> getTime(at)])
    /\ lastStatus' = [lastStatus EXCEPT ![c.workerId] = NoStatus]
    /\ Finish(s, clockResult(c, punch))
    /\ UNCHANGED <<DEMO_MODE, now, nextId, store_punches>>

clockInDemo(s) == clockDemo(s, "clockIn")
clockOutDemo(s) == clockDemo(s, "clockOut")

\* timestamp DEFAULT NOW(): the store stamps the row, at a resolution at
\* which no two rows get the same instant.
storeStamp(rows) ==
    IF rows # <<>> /\ rows[Len(rows)].timestamp >= now
    THEN rows[Len(rows)].timestamp + 1 ELSE now

\* Live mode, the insert has answered: lines 492-505 and 534-547.
clockLive(s, op) ==
    LET c == calls[s]
        row == [worker_id |-> c.workerId, type |-> IF op = "clockIn" THEN "IN" ELSE "OUT",
                timestamp |-> storeStamp(store_punches)] IN
    /\ c.op = op
    /\ ~DEMO_MODE
    /\ \/ /\ store_punches' = Append(store_punches, row)
          /\ lastStatus' = [lastStatus EXCEPT ![c.workerId] = NoStatus]
          /\ Finish(s, clockResult(c, [worker_id |-> row.worker_id, type |-> row.type,
                                       timestamp |-> toISO(row.timestamp)]))
       \/ \* the insert returned an error
          /\ Finish(s, [op |-> c.op, workerId |-> c.workerId, success |-> FALSE,
                        error |-> IF op = "clockIn" THEN ErrClockIn ELSE ErrClockOut])
          /\ UNCHANGED <<store_punches, lastStatus>>
    /\ UNCHANGED <<DEMO_MODE, now, nextId, demoState, demoPunches>>

clockInLive(s) == clockLive(s, "clockIn")
clockOutLive(s) == clockLive(s, "clockOut")

-----------------------------------------------------------------------------
(* Production logs: part_004 lines 611-657, reset.sql lines 55-62 *)

ProductionDelay == 800
ProductionTickMs == ProductionDelay \div 2

ErrNoTasks == "No tasks to log. Please add quantities."
ErrLogFailed == "Failed to log production. Please try again."

\* What one entry of the form can be: negative, zero and positive quantities.
EntryValues ==
    {[taskName |-> "Pallets", quantity |-> 0 - 1], [taskName |-> "Pallets", quantity |-> 0],
     [taskName |-> "Boxes", quantity |-> 1], [taskName |-> "Pallets", quantity |-> 2]}

EntryLists == UNION {[1..n -> EntryValues] : n \in 0..MaxEntries}

\* entries.filter((e) => e.quantity > 0)
validEntriesNonNegative(list) == SelectSeqBy(list, {e \in Range(list) : e.quantity >= 0})
validEntries(list) == SelectSeqBy(list, {e \in Range(list) : e.quantity > 0})

\* CHECK (quantity > 0): the table takes the rows of one insert all or none.
quantityCheck(rows) == \A i \in 1..Len(rows) : rows[i].quantity > 0

LogDemoId(i) == [prefix |-> "demo-log-", n |-> i]

\* Lines 618-622: nothing valid, the call returns before any await.
logProductionReject(workerId) ==
    /\ Len(validEntries(entries)) = 0
    /\ started < MaxOps
    /\ started' = started + 1
    /\ returned' = [op |-> "logProduction", workerId |-> workerId, success |-> FALSE,
                    error |-> ErrNoTasks, logs |-> <<>>, awaited |-> FALSE]
    /\ UNCHANGED <<DEMO_MODE, now, calls, nextId, productionVars>>

\* Lines 625-626, 640-649: the call suspends on the timer or on the insert.
logProductionCall(s, workerId) ==
    /\ Len(validEntries(entries)) # 0
    /\ Park(s, [op |-> "logProduction", workerId |-> workerId,
                validEntries |-> validEntries(entries),
                due |-> now + ProductionDelay, seq |-> started])
    /\ UNCHANGED <<DEMO_MODE, now, returned, nextId, productionVars>>

logProductionDone(s, success, error, logs) ==
    Finish(s, [op |-> "logProduction", workerId |-> calls[s].workerId, success |-> success,
               error |-> error, logs |-> logs, awaited |-> TRUE])

\* Demo mode, after the delay: lines 628-637. Array.prototype.map numbers the
\* entries from 0.
logProductionDemo(s) ==
    LET c == calls[s]
        logs == [i \in 1..Len(c.validEntries) |->
                    [id |-> LogDemoId(i - 1), worker_id |-> c.workerId,
                     task_name |-> c.validEntries[i].taskName,
                     quantity |-> c.validEntries[i].quantity,
                     timestamp |-> toISO(now)]] IN
    /\ c.op = "logProduction"
    /\ DEMO_MODE
    /\ TimerFires(s)
    /\ logProductionDone(s, TRUE, NULL, logs)
    /\ UNCHANGED <<DEMO_MODE, now, nextId, productionVars>>

\* Live mode, the insert has answered: lines 640-656.
logProductionLive(s) ==
    LET c == calls[s]
        insertData == [i \in 1..Len(c.validEntries) |->
                          [worker_id |-> c.workerId,
                           task_name |-> c.validEntries[i].taskName,
                           quantity |-> c.validEntries[i].quantity]]
        data == [i \in 1..Len(insertData) |->
                    [id |-> StoreId(nextId + i), worker_id |-> insertData[i].worker_id,
                     task_name |-> insertData[i].task_name,
                     quantity |-> insertData[i].quantity,
                     timestamp |-> toISO(now)]] IN
    /\ c.op = "logProduction"
    /\ ~DEMO_MODE
    /\ \/ /\ quantityCheck(insertData)
          /\ store_logs' = store_logs \o data
          /\ nextId' = nextId + Len(data)
          /\ logProductionDone(s, TRUE, NULL, data)
       \/ \* the insert returned an error
          /\ logProductionDone(s, FALSE, ErrLogFailed, <<>>)
          /\ UNCHANGED <<nextId, store_logs>>
    /\ UNCHANGED <<DEMO_MODE, now, entries>>

-----------------------------------------------------------------------------
(* NumericKeypad: src/src/components/NumericKeypad.tsx *)

\* the default of the maxLength prop
maxLength == 6

\* setTimeout(() => { onSubmit(); }, 150)
AutoSubmitDelay == 150

\* the step in which the delay is seen to elapse
KeypadTickMs == AutoSubmitDelay \div 2

\* the keys pressed, and the functions the parent passes as onSubmit
KeypadDigits == {"1", "2"}
SubmitHandlers == {"h1", "h2"}

\* the auto-submit effect (76-90) run for the props v, l, h.  The cleanup of
\* its last run comes first: `return () => clearTimeout(timer)` when that run
\* set the timer, nothing otherwise, so that no timer of an earlier run is
\* pending when this run ends
autoSubmitEffect(v, l, h) ==
    IF Len(v) = maxLength /\ ~l /\ ~hasAutoSubmitted
    THEN /\ hasAutoSubmitted' = TRUE
         /\ timer' = {[handler |-> h, remaining |-> AutoSubmitDelay]}
    ELSE /\ hasAutoSubmitted' = IF Len(v) < maxLength THEN FALSE ELSE hasAutoSubmitted
         /\ timer' = {}

\* history: the value has reached maxLength while isLoading is false
completes(v, l) ==
    /\ Len(v) = maxLength /\ ~l
    /\ Len(value) < maxLength \/ isLoading

\* a render with the props v, l, h: the effect runs when one of its
\* dependencies [value, maxLength, isLoading, onSubmit] has changed
Render(v, l, h) ==
    /\ value' = v /\ isLoading' = l /\ onSubmit' = h
    /\ IF <<v, l, h>> = <<value, isLoading, onSubmit>>
       THEN UNCHANGED <<hasAutoSubmitted, timer, completion>>
       ELSE /\ autoSubmitEffect(v, l, h)
            /\ completion' = IF completes(v, l)
                             THEN [reached |-> TRUE, value |-> v, invoked |-> 0]
                             ELSE completion

\* handleDigitPress (27-35); onChange hands the new value to the parent, which
\* passes it back as the value prop
handleDigitPress(digit) ==
    /\ Len(value) < maxLength /\ ~isLoading
    /\ Render(Append(value, digit), isLoading, onSubmit)

\* handleBackspace (37-43): value.slice(0, -1)
handleBackspace ==
    /\ ~isLoading
    /\ Render(IF value = <<>> THEN <<>> ELSE SubSeq(value, 1, Len(value) - 1),
              isLoading, onSubmit)

\* handleClear (45-51)
handleClear ==
    /\ ~isLoading
    /\ Render(<<>>, isLoading, onSubmit)

\* the parent empties the value it passes (86: "after error clears PIN")
parentClearsValue ==
    /\ value # <<>>
    /\ Render(<<>>, isLoading, onSubmit)

\* the parent passes another isLoading
isLoadingChanges ==
    Render(value, ~isLoading, onSubmit)

\* the parent passes another function as onSubmit
onSubmitChanges ==
    \E h \in SubmitHandlers \ {onSubmit} : Render(value, isLoading, h)

\* time passes while the timer is pending
timerElapses ==
    /\ \E t \in timer :
          /\ t.remaining > 0
          /\ timer' = {[t EXCEPT !.remaining = @ - KeypadTickMs]}
    /\ UNCHANGED <<value, isLoading, onSubmit, hasAutoSubmitted, completion>>

\* the timer's callback (80-82): onSubmit(), the function the effect's run
\* closed over
timerFires ==
    /\ \E t \in timer : t.remaining = 0
    /\ timer' = {}
    /\ completion' = [completion EXCEPT !.invoked = @ + 1]
    /\ UNCHANGED <<value, isLoading, onSubmit, hasAutoSubmitted>>

-----------------------------------------------------------------------------
(* Specifications *)

InitCommon ==
    /\ DEMO_MODE \in BOOLEAN
    /\ calls = [s \in Slots |-> Idle]
    /\ returned = Idle
    /\ nextId = 0
    /\ started = 0

InitRequests ==
    /\ DEMO_REQUESTS = <<>>
    /\ store_requests = <<>>
    /\ approveCompleted = {}

InitCodes ==
    /\ demoVerificationCodes = [w \in {} |-> NULL]
    /\ store_codes = <<>>
    /\ verified = <<>>
    /\ issued = <<>>
    /\ rejected = <<>>

InitWorkerTable ==
    /\ DEMO_WORKERS = SeedWorkers
    /\ store_workers = SeedRows

InitPunchTable ==
    /\ store_punches = <<>>
    /\ tz = 0

InitDuration == ms = 0

InitClockState ==
    /\ demoState = [w \in {} |-> NULL]
    /\ demoPunches = <<>>
    /\ lastStatus = [w \in Workers |-> NoStatus]

InitLogs == store_logs = <<>> /\ entries = <<>>

InitKeypad ==
    /\ value = <<>>
    /\ isLoading = FALSE
    /\ onSubmit = "h1"
    /\ hasAutoSubmitted = FALSE
    /\ timer = {}
    /\ completion = [reached |-> FALSE, value |-> <<>>, invoked |-> 0]

InitTimeOff ==
    /\ InitCommon /\ now = ProcessStart
    /\ InitRequests /\ InitCodes /\ InitWorkerTable /\ InitPunchTable /\ InitDuration
    /\ InitClockState /\ InitLogs /\ InitKeypad

NextTimeOff ==
    \/ Tick(1, MaxTime) /\ UNCHANGED <<timeOffVars, frameTimeOff>>
    \/ \E s \in Slots, w \in Workers : submitCall(s, w) /\ UNCHANGED frameTimeOff
    \/ \E s \in Slots : submitReturn(s) /\ UNCHANGED frameTimeOff
    \/ \E s \in Slots, id \in RequestIds, m \in Managers :
          approveCall(s, id, m) /\ UNCHANGED frameTimeOff
    \/ \E s \in Slots : approveReturn(s) /\ UNCHANGED frameTimeOff
    \/ \E s \in Slots, id \in RequestIds, m \in Managers, reason \in Reasons :
          denyCall(s, id, m, reason) /\ UNCHANGED frameTimeOff
    \/ \E s \in Slots : denyReturn(s) /\ UNCHANGED frameTimeOff
    \/ \E s \in Slots : getAllPendingCall(s) /\ UNCHANGED frameTimeOff
    \/ \E s \in Slots : getAllPendingReturn(s) /\ UNCHANGED frameTimeOff

SpecTimeOff == InitTimeOff /\ [][NextTimeOff]_vars

InitListings == InitTimeOff

NextListings ==
    \/ Tick(1, MaxTime) /\ UNCHANGED <<timeOffVars, frameTimeOff>>
    \/ \E s \in Slots, w \in Workers : submitCall(s, w) /\ UNCHANGED frameTimeOff
    \/ \E s \in Slots : submitReturn(s) /\ UNCHANGED frameTimeOff
    \/ \E s \in Slots, id \in RequestIds, m \in Managers :
          approveCall(s, id, m) /\ UNCHANGED frameTimeOff
    \/ \E s \in Slots : approveReturn(s) /\ UNCHANGED frameTimeOff
    \/ \E s \in Slots, id \in RequestIds, m \in Managers, reason \in Reasons :
          denyCall(s, id, m, reason) /\ UNCHANGED frameTimeOff
    \/ \E s \in Slots : denyReturn(s) /\ UNCHANGED frameTimeOff
    \/ \E s \in Slots : getAllPendingCall(s) /\ UNCHANGED frameTimeOff
    \/ \E s \in Slots : getAllPendingReturn(s) /\ UNCHANGED frameTimeOff
    \/ \E s \in Slots, w \in Workers : getMyCall(s, w) /\ UNCHANGED frameTimeOff
    \/ \E s \in Slots : getMyReturn(s) /\ UNCHANGED frameTimeOff
    \/ \E s \in Slots : getAllCall(s) /\ UNCHANGED frameTimeOff
    \/ \E s \in Slots : getAllReturn(s) /\ UNCHANGED frameTimeOff

SpecListings == InitListings /\ [][NextListings]_vars

InitVerify == InitTimeOff

NextVerify ==
    \/ Tick(VerifyTickMs, MaxVerifyTicks) /\ UNCHANGED <<verifyVars, frameVerify>>
    \/ \E s \in Slots, w \in Workers, code \in Codes :
          sendVerificationCodeCall(s, w, code) /\ UNCHANGED frameVerify
    \/ \E s \in Slots : sendVerificationCodeReturn(s) /\ UNCHANGED frameVerify
    \/ \E s \in Slots, w \in Workers, code \in Codes :
          verifyCodeCall(s, w, code) /\ UNCHANGED frameVerify
    \/ \E s \in Slots : verifyCodeDemo(s) /\ UNCHANGED frameVerify
    \/ \E s \in Slots : verifyCodeSelect(s) /\ UNCHANGED frameVerify
    \/ \E s \in Slots : verifyCodeUpdate(s) /\ UNCHANGED frameVerify

SpecVerify == InitVerify /\ [][NextVerify]_vars

\* The attempts of one worker at one sign-in.
NextAttempts ==
    \/ Tick(VerifyTickMs, MaxVerifyTicks) /\ UNCHANGED <<verifyVars, frameVerify>>
    \/ \E s \in Slots, code \in Codes :
          sendVerificationCodeCall(s, "w1", code) /\ UNCHANGED frameVerify
    \/ \E s \in Slots : sendVerificationCodeReturn(s) /\ UNCHANGED frameVerify
    \/ \E s \in Slots, code \in Codes :
          verifyCodeCall(s, "w1", code) /\ UNCHANGED frameVerify
    \/ \E s \in Slots : verifyCodeDemo(s) /\ UNCHANGED frameVerify
    \/ \E s \in Slots : verifyCodeSelect(s) /\ UNCHANGED frameVerify
    \/ \E s \in Slots : verifyCodeUpdate(s) /\ UNCHANGED frameVerify

SpecAttempts == InitVerify /\ [][NextAttempts]_vars

\* The seeded rows with some of them deactivated (is_active set to false in
\* the store, outside this code).
SeedRowsWithout(inactive) ==
    [i \in 1..Len(SeedRows) |-> [SeedRows[i] EXCEPT !.is_active = i \notin inactive]]

InitWorkers ==
    /\ InitCommon /\ now = ProcessStart
    /\ DEMO_WORKERS = SeedWorkers
    /\ store_workers \in {SeedRowsWithout(inactive) :
                              inactive \in IF DEMO_MODE THEN {{}} ELSE {{}, {2}}}
    /\ InitRequests /\ InitCodes /\ InitPunchTable /\ InitDuration
    /\ InitClockState /\ InitLogs /\ InitKeypad

NextWorkers ==
    \/ Tick(1, MaxTime) /\ UNCHANGED <<workerVars, frameWorkers>>
    \/ \E pin \in Pins, fullName \in Names :
          createWorkerReject(pin, fullName) /\ UNCHANGED frameWorkers
    \/ \E s \in Slots, pin \in Pins, fullName \in Names, role \in Roles :
          createWorkerCall(s, pin, fullName, role) /\ UNCHANGED frameWorkers
    \/ \E s \in Slots : createWorkerDemo(s) /\ UNCHANGED frameWorkers
    \/ \E s \in Slots : createWorkerLive(s) /\ UNCHANGED frameWorkers
    \/ \E pin \in AuthPins : authenticateAdmin(pin) /\ UNCHANGED frameWorkers
    \/ \E s \in Slots, pin \in AuthPins :
          authenticateWorkerCall(s, pin) /\ UNCHANGED frameWorkers
    \/ \E s \in Slots : authenticateWorkerDemo(s) /\ UNCHANGED frameWorkers
    \/ \E s \in Slots : authenticateWorkerLive(s) /\ UNCHANGED frameWorkers

SpecWorkers == InitWorkers /\ [][NextWorkers]_vars

\* Enrolment followed by sign-in: the PINs an administrator may give a new
\* worker, all of six digits; one of them is "000000".
EnrollPins == {AdminPin, <<"6", "5", "4", "3", "2", "1">>}
EnrollNames == {<<"A", "n", "n">>}

NextEnroll ==
    \/ \E s \in Slots, pin \in EnrollPins, fullName \in EnrollNames, role \in Roles :
          createWorkerCall(s, pin, fullName, role) /\ UNCHANGED frameWorkers
    \/ \E s \in Slots : createWorkerDemo(s) /\ UNCHANGED frameWorkers
    \/ \E s \in Slots : createWorkerLive(s) /\ UNCHANGED frameWorkers
    \/ \E pin \in EnrollPins : authenticateAdmin(pin) /\ UNCHANGED frameWorkers
    \/ \E s \in Slots, pin \in EnrollPins :
          authenticateWorkerCall(s, pin) /\ UNCHANGED frameWorkers
    \/ \E s \in Slots : authenticateWorkerDemo(s) /\ UNCHANGED frameWorkers
    \/ \E s \in Slots : authenticateWorkerLive(s) /\ UNCHANGED frameWorkers

SpecEnroll == InitTimeOff /\ [][NextEnroll]_vars

\* Instants of the punch table: 08:00 and 16:00 UTC of Sunday 4, Monday 5 and
\* Tuesday 6 January 1970 (days 3, 4, 5).
PunchInstants == {d * DayMs + h * MsPerHour : d \in {3, 4, 5}, h \in {8, 16}}

\* The worker's own punches of either type, and punches of another worker
\* that the query has to leave out.
PunchRows ==
    [worker_id : {"w1"}, type : {"IN", "OUT"}, timestamp : PunchInstants]
        \cup [worker_id : {"w2"}, type : {"IN"}, timestamp : PunchInstants]

\* Tables in clock order, as successive inserts with timestamp DEFAULT NOW()
\* leave them.
RECURSIVE PunchTables(_)
PunchTables(n) ==
    IF n = 0 THEN {<<>>}
    ELSE LET shorter == PunchTables(n - 1) IN
         shorter \cup {Append(t, r) : t \in {u \in shorter : Len(u) = n - 1}, r \in PunchRows}

ClockOrder(table) ==
    \A i \in 1..Len(table) - 1 : table[i].timestamp <= table[i + 1].timestamp

\* Tuesday 6 January 1970 12:00 UTC and Sunday 11 January 1970 12:00 UTC
PunchNows == {5 * DayMs + 12 * MsPerHour, 10 * DayMs + 12 * MsPerHour}

\* UTC-5, UTC and UTC+2
TimeZones == {0 - 5 * MsPerHour, 0, 2 * MsPerHour}

\* One read of a given punch table: the table, the clock and the time zone
\* are the inputs, and the behaviour makes one call.
InitPunch ==
    /\ InitCommon
    /\ now \in PunchNows
    /\ tz \in TimeZones
    /\ store_punches \in {t \in PunchTables(MaxPunches) : ClockOrder(t) /\ (DEMO_MODE => t = <<>>)}
    /\ InitRequests /\ InitCodes /\ InitWorkerTable /\ InitDuration
    /\ InitClockState /\ InitLogs /\ InitKeypad

NextPunch ==
    \/ \E s \in Slots, days \in HistoryDays :
          /\ started = 0
          /\ getPunchHistoryCall(s, "w1", days)
          /\ UNCHANGED framePunch
    \/ \E s \in Slots :
          getPunchHistoryReturn(s) /\ UNCHANGED framePunch
    \/ \E s \in Slots :
          /\ started = 0
          /\ getWeeklyHoursCall(s, "w1")
          /\ UNCHANGED framePunch
    \/ \E s \in Slots :
          getWeeklyHoursReturn(s) /\ UNCHANGED framePunch

SpecPunch == InitPunch /\ [][NextPunch]_vars

\* Every day of the week of Monday 5 to Sunday 11 January 1970 (days 4 to
\* 10), at the start, the middle and the last millisecond of the UTC day.
WeekNows == {d * DayMs + at : d \in 4..10, at \in {0, 12 * MsPerHour, DayMs - 1}}

\* One getWeeklyHours call at a given instant in a given time zone.
InitWeek ==
    /\ InitCommon
    /\ now \in WeekNows
    /\ tz \in TimeZones
    /\ store_punches = <<>>
    /\ InitRequests /\ InitCodes /\ InitWorkerTable /\ InitDuration
    /\ InitClockState /\ InitLogs /\ InitKeypad

NextWeek ==
    \/ \E s \in Slots, w \in Workers :
          /\ started = 0
          /\ getWeeklyHoursCall(s, w)
          /\ UNCHANGED framePunch
    \/ \E s \in Slots : getWeeklyHoursReturn(s) /\ UNCHANGED framePunch

SpecWeek == InitWeek /\ [][NextWeek]_vars

\* Durations on either side of every boundary of the formatter: whole and
\* nearly whole seconds, minutes and hours.
Durations ==
    {h * MsPerHour + m * MsPerMinute + sec * 1000 + milli :
        h \in 0..MaxHours, m \in {0, 1, 30, 59}, sec \in {0, 1, 59}, milli \in {0, 999}}

InitFormat ==
    /\ InitCommon /\ now = ProcessStart
    /\ ms \in Durations
    /\ InitRequests /\ InitCodes /\ InitWorkerTable /\ InitPunchTable
    /\ InitClockState /\ InitLogs /\ InitKeypad

NextFormat ==
    formatDurationCall /\ UNCHANGED frameFormat

SpecFormat == InitFormat /\ [][NextFormat]_vars

InitClock == InitTimeOff

NextClock ==
    \/ Tick(ClockTickMs, MaxTime) /\ UNCHANGED <<store_punches, clockVars, frameClock>>
    \/ \E s \in Slots, w \in Workers : getWorkerStatusCall(s, w) /\ UNCHANGED frameClock
    \/ \E s \in Slots : getWorkerStatusDemo(s) /\ UNCHANGED frameClock
    \/ \E s \in Slots : getWorkerStatusLive(s) /\ UNCHANGED frameClock
    \/ \E s \in Slots, w \in Workers : clockInCall(s, w) /\ UNCHANGED frameClock
    \/ \E s \in Slots : clockInDemo(s) /\ UNCHANGED frameClock
    \/ \E s \in Slots : clockInLive(s) /\ UNCHANGED frameClock
    \/ \E s \in Slots, w \in Workers, clockInTime \in ClockInTimes :
          clockOutCall(s, w, clockInTime) /\ UNCHANGED frameClock
    \/ \E s \in Slots : clockOutDemo(s) /\ UNCHANGED frameClock
    \/ \E s \in Slots : clockOutLive(s) /\ UNCHANGED frameClock

SpecClock == InitClock /\ [][NextClock]_vars

InitProduction ==
    /\ InitCommon /\ now = ProcessStart
    /\ InitRequests /\ InitCodes /\ InitWorkerTable /\ InitPunchTable /\ InitDuration
    /\ InitClockState /\ InitKeypad
    /\ store_logs = <<>>
    /\ entries \in EntryLists

NextProduction ==
    \/ Tick(ProductionTickMs, MaxTime) /\ UNCHANGED <<productionVars, frameProduction>>
    \/ \E w \in Workers : logProductionReject(w) /\ UNCHANGED frameProduction
    \/ \E s \in Slots, w \in Workers : logProductionCall(s, w) /\ UNCHANGED frameProduction
    \/ \E s \in Slots : logProductionDemo(s) /\ UNCHANGED frameProduction
    \/ \E s \in Slots : logProductionLive(s) /\ UNCHANGED frameProduction

SpecProduction == InitProduction /\ [][NextProduction]_vars

\* the keypad: key presses, the parent's changes of the props, and the timer.
\* A timeout that is not cleared does fire, whence the fairness of the two
\* timer steps; nothing obliges the user or the parent to act.
InitKeypadMounted == InitTimeOff

NextKeypad ==
    \/ (\E digit \in KeypadDigits : handleDigitPress(digit)) /\ UNCHANGED frameKeypad
    \/ handleBackspace /\ UNCHANGED frameKeypad
    \/ handleClear /\ UNCHANGED frameKeypad
    \/ parentClearsValue /\ UNCHANGED frameKeypad
    \/ isLoadingChanges /\ UNCHANGED frameKeypad
    \/ onSubmitChanges /\ UNCHANGED frameKeypad
    \/ timerElapses /\ UNCHANGED frameKeypad
    \/ timerFires /\ UNCHANGED frameKeypad

SpecKeypad ==
    /\ InitKeypadMounted /\ [][NextKeypad]_vars
    /\ WF_vars(timerElapses /\ UNCHANGED frameKeypad)
    /\ WF_vars(timerFires /\ UNCHANGED frameKeypad)

-----------------------------------------------------------------------------
(* Properties *)

Reviewed(r) == r.status \in {"approved", "denied"}

\* C1: once a request is approved or denied, no step changes its status,
\* reviewed_by, reviewed_at or denial_reason: the reviewed record is still
\* there, field for field, after every step.
C1_ReviewedIsTerminal ==
    [][\A r \in AllRequests :
          Reviewed(r) => r \in AllRequestsOf(DEMO_REQUESTS', store_requests')]_vars

\* C2: when approveRequest has returned, every request with the approved id
\* is approved and stamped, and no pending listing called after an
\* approveRequest returned for a request contains that request.
C2_ApprovedLeavesPending ==
    /\ returned.op = "approve" =>
          \A r \in AllRequests :
              r.id = returned.requestId =>
                  /\ r.status = "approved"
                  /\ r.reviewed_by # NULL
                  /\ r.reviewed_at # NULL
    /\ returned.op = "getAllPending" =>
          \A r \in Range(returned.requests) : r.uid \notin returned.approvedBefore

\* C3: no issued code is accepted twice: verifyCode returns success at most
\* once for each code sendVerificationCode has stored.
C3_NoReplay ==
    \A i, j \in DOMAIN verified : i # j => verified[i] # verified[j]

UniquePins(workers) ==
    \A i, j \in 1..Len(workers) : workers[i].pin = workers[j].pin => i = j

\* C4: no two workers share a PIN, in the demo table and in the store,
\* whatever the interleaving of createWorker calls.
C4_PinsUnique == UniquePins(DEMO_WORKERS) /\ UniquePins(store_workers)

\* Two createWorker calls with one PIN overlapped in demo mode: the PIN was
\* free when this call was made and taken when it resumed.
C4_Witness ==
    /\ DEMO_MODE
    /\ returned.op = "createWorker"
    /\ returned.error = ErrPinInUse
    /\ ~returned.takenAtCall

\* This step is the return of a createWorker(pin, ...) call.
createWorkerReturns(pin) ==
    /\ returned'.op = "createWorker"
    /\ returned'.pin = pin
    /\ \/ started' # started /\ calls' = calls
       \/ \E s \in Slots : calls[s].op = "createWorker" /\ calls'[s] = Idle

\* C5 as stated: every createWorker call with a six-digit PIN that a worker
\* already has fails with 'This PIN is already in use.' and changes no worker.
C5_TakenPinAlwaysPinInUse ==
    [][\A pin \in Pins :
          createWorkerReturns(pin) /\ isSixDigits(pin) /\ PinTaken(pin) =>
              /\ returned'.success = FALSE
              /\ returned'.error = ErrPinInUse
              /\ UNCHANGED workerVars]_vars

\* C5 amended: a createWorker call that passes validation (six-digit PIN, name
\* not blank) with a PIN a worker already has changes no worker and fails; the
\* error is 'This PIN is already in use.', which is not the generic failure,
\* in demo mode and whenever the store answers with the unique violation; it is
\* the generic failure only when the store call failed otherwise.
C5_TakenPinFails ==
    [][\A s \in Slots :
          calls[s].op = "createWorker" /\ calls'[s] = Idle /\ PinTaken(calls[s].pin) =>
              /\ returned'.success = FALSE
              /\ UNCHANGED workerVars
              /\ ErrPinInUse # ErrCreateFailed
              /\ returned'.error = IF DEMO_MODE \/ returned'.code = "23505"
                                   THEN ErrPinInUse ELSE ErrCreateFailed
              /\ ~DEMO_MODE => returned'.code \in {"23505", "other"}]_vars

C5_Witness ==
    /\ returned.op = "createWorker"
    /\ returned.takenAtCall
    /\ returned.error = ErrPinInUse

\* a getPunchHistory call answered from the punch table
HistoryFromStore == returned.op = "getPunchHistory" /\ ~DEMO_MODE /\ returned.success

\* the positions in the fetched sequence of a date's punches of one type
PunchesOn(data, date, type) ==
    {i \in 1..Len(data) : dateSegment(data[i].timestamp) = date /\ data[i].type = type}

FetchedDates(data) == {dateSegment(data[i].timestamp) : i \in 1..Len(data)}

Lowest(S) == CHOOSE i \in S : \A j \in S : i <= j
Highest(S) == CHOOSE i \in S : \A j \in S : i >= j

\* C6: on the store path, every date of the fetched sequence has a pair whose
\* clockIn is the date's first IN punch, whose clockOut is its last OUT
\* punch, and whose totalMs, when both exist, is exactly clockOut - clockIn,
\* negative when the last OUT precedes the first IN.
C6_FirstInLastOut ==
    HistoryFromStore =>
        \A date \in FetchedDates(returned.data) :
            \E i \in 1..Len(returned.history) :
                LET pair == returned.history[i]
                    ins == PunchesOn(returned.data, date, "IN")
                    outs == PunchesOn(returned.data, date, "OUT") IN
                /\ pair.date = date
                /\ ins # {} => pair.clockIn = returned.data[Lowest(ins)].timestamp
                /\ outs # {} => pair.clockOut = returned.data[Highest(outs)].timestamp
                /\ (ins # {} /\ outs # {}) =>
                      pair.totalMs = getTime(returned.data[Highest(outs)].timestamp)
                                        - getTime(returned.data[Lowest(ins)].timestamp)

\* a returned pair whose last OUT precedes its first IN
C6_Witness ==
    /\ HistoryFromStore
    /\ \E i \in 1..Len(returned.history) :
          /\ returned.history[i].totalMs < 0
          /\ returned.history[i].clockIn # NoTime
          /\ returned.history[i].clockOut # NoTime

\* C7: in every pair getPunchHistory returns, totalMs is 0 whenever clockIn
\* or clockOut is null; a date with only IN punches has clockOut null and
\* totalMs 0, a date with only OUT punches has clockIn null and totalMs 0.
C7_ZeroWithoutBothEnds ==
    (returned.op = "getPunchHistory" /\ returned.success) =>
        /\ \A i \in 1..Len(returned.history) :
              (returned.history[i].clockIn = NoTime \/ returned.history[i].clockOut = NoTime)
                  => returned.history[i].totalMs = 0
        /\ \A date \in FetchedDates(returned.data) :
              \A i \in 1..Len(returned.history) :
                  returned.history[i].date = date =>
                      /\ PunchesOn(returned.data, date, "OUT") = {} =>
                            /\ returned.history[i].clockOut = NoTime
                            /\ returned.history[i].totalMs = 0
                      /\ PunchesOn(returned.data, date, "IN") = {} =>
                            /\ returned.history[i].clockIn = NoTime
                            /\ returned.history[i].totalMs = 0

\* a returned history with a date that has only an IN punch and a date that
\* has only an OUT punch
C7_Witness ==
    /\ HistoryFromStore
    /\ \E i, j \in 1..Len(returned.history) :
          /\ returned.history[i].clockIn # NoTime /\ returned.history[i].clockOut = NoTime
          /\ returned.history[j].clockIn = NoTime /\ returned.history[j].clockOut # NoTime

\* C8: on the store path the returned list has exactly one pair for each
\* date segment of a fetched punch, none for any other date, and the pairs
\* are in strictly descending date order.
C8_OnePairPerDateDescending ==
    HistoryFromStore =>
        /\ {returned.history[i].date : i \in 1..Len(returned.history)}
              = FetchedDates(returned.data)
        /\ Len(returned.history) = Cardinality(FetchedDates(returned.data))
        /\ \A i \in 1..Len(returned.history) - 1 :
              returned.history[i].date > returned.history[i + 1].date

\* a returned history of three dates
C8_Witness ==
    /\ HistoryFromStore
    /\ Len(returned.history) = 3
    /\ Len(returned.data) = 3

RECURSIVE SumTotalMs(_)
SumTotalMs(pairs) ==
    IF pairs = <<>> THEN 0 ELSE Head(pairs).totalMs + SumTotalMs(Tail(pairs))

\* the Monday on or before a calendar day (day 4, 5 January 1970, was a Monday)
MondayOf(day) == day - ((day + 3) % 7)

\* the short weekday name of a calendar date
WeekdayName(date) == ShortDays[((date + 4) % 7) + 1]

\* C9: getWeeklyHours counts exactly the pairs of the 7-day fetch dated on
\* or after the Monday of the current week; totalMs is the sum of their
\* totalMs, dailyHours has one key per weekday of a counted pair, named after
\* the pair's date, holding the summed hours of that weekday, and
\* totalHours is totalMs / 3 600 000.
C9_WeeklyHoursByCalendarDate ==
    returned.op = "getWeeklyHours" =>
        LET included == SelectSeq(returned.history,
                                  LAMBDA p : p.date >= MondayOf(returned.today))
            OnDay(name) == SelectSeq(included, LAMBDA p : WeekdayName(p.date) = name) IN
        /\ returned.totalMs = SumTotalMs(included)
        /\ returned.totalHours = [num |-> returned.totalMs, den |-> 3600000]
        /\ DOMAIN returned.dailyHours = {WeekdayName(included[i].date) : i \in 1..Len(included)}
        /\ \A name \in DOMAIN returned.dailyHours :
              returned.dailyHours[name] = [num |-> SumTotalMs(OnDay(name)), den |-> 3600000]

\* C10: for a non-negative ms, formatDuration gives "{h}h {m}m" with
\* h = floor(ms / 3 600 000) and m = floor((ms mod 3 600 000) / 60 000) when
\* ms >= 3 600 000, and "{m} minutes" with m = floor(ms / 60 000) otherwise.
C10_FloorBased ==
    returned.op = "formatDuration" =>
        returned.text =
            IF ms >= 3600000
            THEN ToString(ms \div 3600000) \o "h " \o ToString((ms % 3600000) \div 60000) \o "m"
            ELSE ToString(ms \div 60000) \o " minutes"

\* 3 599 999 ms formatted as "59 minutes"
C10_Witness ==
    /\ returned.op = "formatDuration"
    /\ ms = 3599999
    /\ returned.text = "59 minutes"

\* the workers a PIN identifies: every demo worker, the active rows of the store
ActiveWithPin(pin) ==
    IF DEMO_MODE
    THEN {identityOf(DEMO_WORKERS[i]) : i \in {j \in 1..Len(DEMO_WORKERS) : DEMO_WORKERS[j].pin = pin}}
    ELSE {identityOf(store_workers[i]) :
             i \in {j \in 1..Len(store_workers) :
                       store_workers[j].pin = pin /\ store_workers[j].is_active = TRUE}}

\* C11: authenticateWorker("000000") always returns success with the admin
\* identity (id 'admin', role 'admin', isAdmin true), in demo and in live
\* mode and whatever the worker table holds; the call never suspends, so it
\* neither reads nor writes the store.
C11_AdminPinBypass ==
    /\ \A s \in Slots : calls[s].op = "authenticateWorker" => calls[s].pin # AdminPin
    /\ (returned.op = "authenticateWorker" /\ returned.pin = AdminPin) =>
          /\ returned.success
          /\ returned.worker.id = "admin"
          /\ returned.worker.role = "admin"
          /\ returned.isAdmin = TRUE
          /\ ~returned.awaited

\* the admin PIN accepted in live mode after a worker was added to the table
C11_Witness ==
    /\ returned.op = "authenticateWorker" /\ returned.pin = AdminPin
    /\ returned.success /\ returned.isAdmin
    /\ ~DEMO_MODE
    /\ Len(store_workers) > Len(SeedRows)

Returns(s, op) == calls[s].op = op /\ calls'[s] = Idle

\* the punches of a worker: the rows of the store, in demo mode the punches
\* the clock operations have returned
PunchesSoFar(workerId) ==
    PunchesOf(IF DEMO_MODE THEN demoPunches ELSE store_punches, workerId)

\* the status that follows from a worker's punches
StatusMatches(result, punches) ==
    IF punches = <<>>
    THEN result.isClockedIn = FALSE /\ result.clockInTime = NoTime
    ELSE \E r \in Range(punches) :
            /\ \A q \in Range(punches) : q.timestamp <= r.timestamp
            /\ result.isClockedIn = (r.type = "IN")
            /\ result.clockInTime = IF r.type = "IN" THEN toISO(r.timestamp) ELSE NoTime

Punches(s) ==
    /\ Returns(s, "clockIn") \/ Returns(s, "clockOut")
    /\ returned'.success

PunchType(op) == IF op = "clockIn" THEN "IN" ELSE "OUT"

\* every other worker's clock state is as it was
OthersKeepState(workerId) ==
    /\ DOMAIN demoState' \ {workerId} = DOMAIN demoState \ {workerId}
    /\ \A w \in DOMAIN demoState \ {workerId} : demoState'[w] = demoState[w]

\* C15 as stated: each successful clockIn or clockOut appends exactly one
\* punch record of that worker and type to the punches, changes and removes
\* no existing punch, and leaves every other worker's punches and clock
\* state unchanged.
C15_AppendsOnePunch ==
    [][\A s \in Slots :
          Punches(s) =>
              /\ Len(store_punches') = Len(store_punches) + 1
              /\ SubSeq(store_punches', 1, Len(store_punches)) = store_punches
              /\ store_punches'[Len(store_punches')].worker_id = calls[s].workerId
              /\ store_punches'[Len(store_punches')].type = PunchType(calls[s].op)
              /\ OthersKeepState(calls[s].workerId)]_vars

\* C15, amended: in live mode a successful clockIn or clockOut appends
\* exactly one punch row of that worker and type and changes nothing else;
\* in demo mode it keeps no punch record: it returns one punch of that
\* worker and type and overwrites that worker's clock state only. A call
\* fails only when the store refuses the insert, and then changes nothing.
C15_OnePunchPerCall ==
    [][\A s \in Slots :
          (Returns(s, "clockIn") \/ Returns(s, "clockOut")) =>
              IF ~returned'.success
              THEN ~DEMO_MODE /\ UNCHANGED <<store_punches, demoState>>
              ELSE /\ returned'.punch.worker_id = calls[s].workerId
                   /\ returned'.punch.type = PunchType(calls[s].op)
                   /\ OthersKeepState(calls[s].workerId)
                   /\ IF DEMO_MODE
                      THEN /\ UNCHANGED store_punches
                           /\ calls[s].workerId \in DOMAIN demoState'
                      ELSE /\ UNCHANGED demoState
                           /\ Len(store_punches') = Len(store_punches) + 1
                           /\ SubSeq(store_punches', 1, Len(store_punches)) = store_punches
                           /\ store_punches'[Len(store_punches')].worker_id = calls[s].workerId
                           /\ store_punches'[Len(store_punches')].type = PunchType(calls[s].op)]_vars

\* a clockIn accepted in live mode for a worker whose last punch was an IN,
\* while another worker has a punch of their own
C15_Witness ==
    /\ returned.op = "clockIn" /\ returned.success
    /\ ~DEMO_MODE
    /\ Len(store_punches) = 3
    /\ \E i \in 1..2 :
          /\ store_punches[i].worker_id = returned.workerId
          /\ store_punches[i].type = "IN"
          /\ store_punches[3].worker_id = returned.workerId
          /\ store_punches[3].type = "IN"
          /\ store_punches[3 - i].worker_id # returned.workerId

\* C16: a successful clockOut returns timeWorkedMs = (time of the call) -
\* (the clockInTime the caller supplied) and timeWorked =
\* formatDuration(timeWorkedMs), whatever clock-in time is stored; with a
\* null clockInTime it returns timeWorkedMs = 0 and timeWorked = 'Unknown'.
C16_TimeWorkedFromArgument ==
    (returned.op = "clockOut" /\ returned.success) =>
        IF returned.clockInTime = NoTime
        THEN returned.timeWorkedMs = 0 /\ returned.timeWorked = "Unknown"
        ELSE /\ returned.timeWorkedMs = returned.clockOutTime - getTime(returned.clockInTime)
             /\ returned.timeWorked = formatDuration(returned.timeWorkedMs)

\* a clockOut that returned after the clock had moved on, for a worker
\* whose recorded clock-in is not the one the caller supplied
C16_Witness ==
    /\ returned.op = "clockOut" /\ returned.success
    /\ returned.clockInTime # NoTime
    /\ now > returned.clockOutTime
    /\ \E i \in 1..Len(PunchesSoFar(returned.workerId)) :
          /\ PunchesSoFar(returned.workerId)[i].type = "IN"
          /\ PunchesSoFar(returned.workerId)[i].timestamp # getTime(returned.clockInTime)

\* This step is a createWorker(pin, fullName, ...) call: either it returns at
\* once (no call is left in flight) or it suspends on the store or the timer.
createWorkerCalled(pin, fullName) ==
    /\ started' = started + 1
    /\ \/ /\ calls' = calls
          /\ returned'.op = "createWorker" /\ ~returned'.awaited
          /\ returned'.pin = pin /\ returned'.fullName = fullName
       \/ \E s \in Slots :
             /\ calls[s] = Idle /\ calls'[s].op = "createWorker"
             /\ calls'[s].pin = pin /\ calls'[s].fullName = fullName

\* C17: a createWorker call whose pin is not exactly six decimal digits, or
\* whose name is empty after trimming, is rejected in the calling step itself:
\* no call is left waiting on the store or the timer, the demo list and the
\* workers table are unchanged, the result is a failure with 'PIN must be
\* exactly 6 digits.' when the pin is invalid (also when the name is empty
\* too) and 'Name is required.' when only the name is invalid.
C17_ValidationBeforeStore ==
    [][\A pin \in Pins, fullName \in Names :
          createWorkerCalled(pin, fullName)
          /\ (~isSixDigits(pin) \/ trim(fullName) = <<>>) =>
              /\ calls' = calls
              /\ UNCHANGED workerVars
              /\ returned'.success = FALSE
              /\ returned'.error = IF ~isSixDigits(pin) THEN ErrPinFormat
                                   ELSE ErrNameRequired
              /\ ErrPinFormat # ErrNameRequired]_vars

\* A call with both an invalid pin and a blank name was answered with the pin
\* message.
C17_Witness ==
    /\ returned.op = "createWorker"
    /\ ~isSixDigits(returned.pin) /\ trim(returned.fullName) = <<>>
    /\ returned.fullName # <<>>
    /\ returned.error = ErrPinFormat

\* the places of the entries with a positive quantity
PositiveEntries == {i \in 1..Len(entries) : entries[i].quantity > 0}

\* `logs` are the positive entries, one log each, in the order of the entries
RecordsPositiveInOrder(logs, workerId) ==
    \E f \in [1..Len(logs) -> 1..Len(entries)] :
        /\ \A j, k \in 1..Len(logs) : j < k => f[j] < f[k]
        /\ {f[k] : k \in 1..Len(logs)} = PositiveEntries
        /\ \A k \in 1..Len(logs) :
              /\ logs[k].worker_id = workerId
              /\ logs[k].task_name = entries[f[k]].taskName
              /\ logs[k].quantity = entries[f[k]].quantity
              /\ logs[k].quantity > 0

\* This step is a logProduction call that returns at once.
logProductionRejected ==
    started' = started + 1 /\ calls' = calls /\ returned'.op = "logProduction"

\* This step is a logProduction call that suspends.
logProductionSuspended ==
    \E s \in Slots : calls[s] = Idle /\ calls'[s].op = "logProduction"

\* C18: logProduction(workerId, entries) returns, and in live mode stores,
\* one log per entry with quantity > 0, in the order of the entries, and
\* nothing else, so every returned and every stored log has quantity > 0. A
\* call fails with 'No tasks to log. Please add quantities.' exactly when no
\* entry has a positive quantity, and then at once and leaving the table
\* alone; the only other failure is the store's refusal of the insert, which
\* also leaves the table alone.
C18_LogsPositiveEntriesInOrder ==
    [][/\ logProductionRejected =>
              /\ PositiveEntries = {}
              /\ returned'.success = FALSE /\ returned'.error = ErrNoTasks
              /\ store_logs' = store_logs
       /\ logProductionSuspended => PositiveEntries # {}
       /\ \A s \in Slots : Returns(s, "logProduction") =>
              /\ PositiveEntries # {}
              /\ returned'.success =>
                    /\ RecordsPositiveInOrder(returned'.logs, calls[s].workerId)
                    /\ store_logs' = IF DEMO_MODE THEN store_logs
                                     ELSE store_logs \o returned'.logs
              /\ ~returned'.success =>
                    /\ ~DEMO_MODE
                    /\ returned'.error = ErrLogFailed /\ ErrLogFailed # ErrNoTasks
                    /\ store_logs' = store_logs
       /\ \A i \in 1..Len(store_logs') : store_logs'[i].quantity > 0]_vars

\* Of three entries the middle one had no positive quantity: the two others
\* were stored and returned.
C18_Witness ==
    /\ ~DEMO_MODE
    /\ returned.op = "logProduction" /\ returned.success
    /\ Len(entries) = 3 /\ entries[2].quantity <= 0
    /\ Len(returned.logs) = 2 /\ returned.logs[1].quantity # returned.logs[2].quantity
    /\ Len(store_logs) >= 2

\* the codes held for a worker: the demo entry, or the rows of the table
CodesHeldFor(workerId) ==
    IF DEMO_MODE
    THEN {demoVerificationCodes[w] : w \in DOMAIN demoVerificationCodes \cap {workerId}}
    ELSE {[code |-> r.code, expiresAt |-> r.expires_at] :
             r \in {q \in Range(store_codes) : q.worker_id = workerId /\ q.used_at = NULL}}

\* C19: a verifyCode call that fails reports which of three things went wrong,
\* each with an error of its own, in demo and in live mode: no code exists for
\* the worker ('not found'), a code exists but none is the presented one
\* ('mismatch', 'Invalid code. Please try again.'), the presented code matches
\* but its ten minutes have passed ('expired', 'Code expired. Please request a
\* new one.').
C19_ThreeDistinctErrors ==
    [][\A s \in Slots :
          Returns(s, "verifyCode") /\ ~returned'.success =>
              LET held == CodesHeldFor(calls[s].workerId)
                  matching == {h \in held : h.code = calls[s].code} IN
              /\ held = {} => returned'.error \notin {ErrInvalidCode, ErrExpired}
              /\ held # {} /\ matching = {} => returned'.error = ErrInvalidCode
              /\ matching # {} /\ (\A h \in matching : h.expiresAt < now) =>
                    returned'.error = ErrExpired
              /\ ErrInvalidCode # ErrExpired]_vars

\* the code of the worker's latest issue among the first n issues, if any
LatestIssued(workerId, n) ==
    LET own == {i \in 1..n : issued'[i].worker_id = workerId} IN
    {issued'[i].code : i \in {j \in own : \A k \in own : k <= j}}

\* C20: only the most recently issued code of a worker is trusted. A
\* verifyCode call made after two or more codes were issued to the worker
\* succeeds only for a code that was the worker's latest issue at some moment
\* of the call; an earlier code is rejected even when unused and unexpired.
C20_OnlyLatestCodeTrusted ==
    [][\A s \in Slots :
          Returns(s, "verifyCode") /\ returned'.success
          /\ Cardinality({i \in 1..calls[s].issuedAtCall :
                             issued[i].worker_id = calls[s].workerId}) >= 2 =>
              \E n \in calls[s].issuedAtCall..Len(issued') :
                  calls[s].code \in LatestIssued(calls[s].workerId, n)]_vars

TimeOffOps == {"submit", "getMy", "getAllPending", "getAll", "approve", "deny"}

\* C21: every time-off call returns success = true. When the store call of a
\* live-mode call returns an error or throws, the store is left alone and the
\* call goes on with the demo request set: submitTimeOffRequest puts a new
\* pending local record in front of it and returns that record, the listings
\* return its records (those of the worker, the pending ones, all of them),
\* approveRequest and denyRequest apply their updates to its record of that id.
C21_NeverFailsOutward ==
    [][\A s \in Slots, op \in TimeOffOps :
          Returns(s, op) =>
              /\ returned'.success = TRUE
              /\ returned'.fallback =>
                    /\ ~DEMO_MODE
                    /\ store_requests' = store_requests
                    /\ op = "submit" =>
                          /\ DEMO_REQUESTS' = <<returned'.request>> \o DEMO_REQUESTS
                          /\ startsWithDemo(returned'.request.id)
                          /\ returned'.request.worker_id = calls[s].workerId
                          /\ returned'.request.status = "pending"
                    /\ op = "getMy" =>
                          /\ returned'.requests = demoMine(calls[s].workerId)
                          /\ DEMO_REQUESTS' = DEMO_REQUESTS
                    /\ op = "getAllPending" =>
                          /\ returned'.requests = demoPending
                          /\ DEMO_REQUESTS' = DEMO_REQUESTS
                    /\ op = "getAll" =>
                          /\ returned'.requests = DEMO_REQUESTS
                          /\ DEMO_REQUESTS' = DEMO_REQUESTS
                    /\ op \in {"approve", "deny"} =>
                          /\ Len(DEMO_REQUESTS') = Len(DEMO_REQUESTS)
                          /\ \A i \in 1..Len(DEMO_REQUESTS) :
                                DEMO_REQUESTS'[i] =
                                   IF DEMO_REQUESTS[i].id = calls[s].requestId
                                   THEN ApplyUpdates(DEMO_REQUESTS[i], calls[s].updates)
                                   ELSE DEMO_REQUESTS[i]]_vars

\* In live mode an insert failed and left a local record, and a listing whose
\* query failed returned that record.
C21_Witness ==
    /\ ~DEMO_MODE
    /\ returned.op = "getMy" /\ returned.success /\ returned.fallback
    /\ returned.requests # <<>>
    /\ \A i \in 1..Len(returned.requests) : startsWithDemo(returned.requests[i].id)

\* `requests` lists exactly the requests of `wanted`, each once
ListsExactly(requests, wanted) ==
    /\ Range(requests) = wanted
    /\ \A i, j \in 1..Len(requests) : i # j => requests[i].uid # requests[j].uid

\* requests created at different instants come oldest first
OldestFirst(requests) ==
    \A i, j \in 1..Len(requests) :
        i < j /\ requests[i].created_at # requests[j].created_at =>
            requests[i].uid < requests[j].uid

\* requests created at different instants come most recent first
MostRecentFirst(requests) ==
    \A i, j \in 1..Len(requests) :
        i < j /\ requests[i].created_at # requests[j].created_at =>
            requests[i].uid > requests[j].uid

MineListed ==
    \A s \in Slots :
        Returns(s, "getMy") =>
            ListsExactly(returned'.requests,
                         {r \in AllRequests : r.worker_id = calls[s].workerId})

PendingListed ==
    \A s \in Slots :
        Returns(s, "getAllPending") =>
            /\ ListsExactly(returned'.requests, {r \in AllRequests : r.status = "pending"})
            /\ OldestFirst(returned'.requests)

AllListed ==
    \A s \in Slots :
        Returns(s, "getAll") =>
            /\ MostRecentFirst(returned'.requests)
            /\ Len(returned'.requests) <= AllLimit

\* C22: getMyTimeOffRequests(w) returns exactly the requests whose worker_id
\* is w; getAllPendingRequests returns exactly the pending requests, oldest
\* first by creation; getAllTimeOffRequests returns requests most recent
\* first, and never more than 50 of them.
C22_Listings == [][MineListed /\ PendingListed /\ AllListed]_vars

\* the request(s) a review call names, after the call has returned
Reviewed_(requestId) == {r \in AllRequestsOf(DEMO_REQUESTS', store_requests') : r.id = requestId}

ReviewStamped ==
    \A s \in Slots :
        /\ Returns(s, "approve") =>
              \A r \in Reviewed_(calls[s].requestId) :
                  /\ r.status = "approved"
                  /\ r.reviewed_by = calls[s].updates.reviewed_by
                  /\ r.reviewed_at = calls[s].updates.reviewed_at
                  /\ \E q \in AllRequests : q.uid = r.uid /\ q.denial_reason = r.denial_reason
        /\ Returns(s, "deny") =>
              \A r \in Reviewed_(calls[s].requestId) :
                  /\ r.status = "denied"
                  /\ r.reviewed_by = calls[s].updates.reviewed_by
                  /\ r.reviewed_at = calls[s].updates.reviewed_at
                  /\ r.denial_reason = calls[s].updates.denial_reason
                  /\ r.denial_reason # ""
        /\ Returns(s, "submit") =>
              /\ returned'.request.status = "pending"
              /\ returned'.request.reviewed_by = NULL
              /\ returned'.request.reviewed_at = NULL
              /\ returned'.request.denial_reason = NULL

\* C23: when approveRequest(id, m) or denyRequest(id, m, reason) has returned,
\* the request with that id carries reviewed_by = m and reviewed_at = the time
\* of the call; after denyRequest it is 'denied' with denial_reason the given
\* reason, or null for no or an empty reason; approveRequest leaves
\* denial_reason as it was; a request just submitted is 'pending' with
\* reviewed_by, reviewed_at and denial_reason null.
C23_ReviewStamping == [][ReviewStamped]_vars

OwnerSeesSubmitted ==
    \A s \in Slots :
        Returns(s, "getMy") =>
            \A id \in calls[s].knownAtCall :
                \E i \in 1..Len(returned'.requests) : returned'.requests[i].id = id

\* C26: once submitTimeOffRequest(workerId, data) has returned a request,
\* every getMyTimeOffRequests(workerId) called afterwards returns a list that
\* contains a request with that id, in both modes and whichever store calls
\* fail in between.
C26_SubmittedStaysVisible == [][OwnerSeesSubmitted]_vars

DemoIdsDistinct ==
    \A i, j \in 1..Len(DEMO_REQUESTS) : i # j => DEMO_REQUESTS[i].id # DEMO_REQUESTS[j].id

ReviewTouchesOne ==
    \A s \in Slots :
        Returns(s, "approve") \/ Returns(s, "deny") =>
            /\ returned'.success
            /\ Cardinality({r \in AllRequests :
                               r \notin AllRequestsOf(DEMO_REQUESTS', store_requests')}) <= 1
            /\ \A r \in AllRequests :
                  r.id # calls[s].requestId =>
                      r \in AllRequestsOf(DEMO_REQUESTS', store_requests')
            /\ Len(DEMO_REQUESTS') = Len(DEMO_REQUESTS)
            /\ Len(store_requests') = Len(store_requests)

\* C28: distinct submissions held in the demo request set always have
\* distinct ids, so approveRequest(id, ...) and denyRequest(id, ...) change at
\* most the one request submitted with that id and leave every other request
\* as it was; with an id no request has they return success and change
\* nothing.
C28_ReviewTouchesOneRequest == [][DemoIdsDistinct' /\ ReviewTouchesOne]_vars

\* the local calendar day (days since 1 January 1970) of an instant
LocalDay(t) == (t + tz) \div DayMs

\* the local weekday of a local calendar day, 0 = Sunday: 1 January 1970 was
\* a Thursday
WeekdayOfDay(day) == (day + 4) % 7

\* C24: the week start getWeeklyHours uses is local midnight of the most
\* recent Monday on or before today: six days before today when today is a
\* Sunday, otherwise (weekday index - 1) days before today, so it is always a
\* Monday, never after the call and at most six days before today.
C24_WeekStartIsMonday ==
    \A s \in Slots :
        calls[s].op = "getWeeklyHours" =>
            LET start == calls[s].startOfWeek
                today == LocalDay(now)
                back == IF WeekdayOfDay(today) = 0 THEN 6 ELSE WeekdayOfDay(today) - 1 IN
            /\ (start + tz) % DayMs = 0
            /\ LocalDay(start) = today - back
            /\ WeekdayOfDay(LocalDay(start)) = 1
            /\ start <= now
            /\ today - LocalDay(start) \in 0..6
            /\ \A day \in LocalDay(start) + 1..today : WeekdayOfDay(day) # 1

\* A call made on a Sunday: the week started six days before.
C24_Witness ==
    \E s \in Slots :
        /\ calls[s].op = "getWeeklyHours"
        /\ WeekdayOfDay(LocalDay(now)) = 0
        /\ LocalDay(now) - LocalDay(calls[s].startOfWeek) = 6

\* C25: in demo mode every clockIn and clockOut returns success, also when it
\* overlaps another clock operation of the same worker, and at its write the
\* worker's demo clock state becomes exactly what this call writes, whatever
\* the calls before it wrote and whichever was made first: clocked in since
\* the instant captured when clockIn was called (not the instant of the
\* write), or clocked out with no clock-in time. The state after two
\* overlapping operations is therefore that of the one that wrote last.
C25_LastDemoWriteWins ==
    [][\A s \in Slots :
          DEMO_MODE /\ (Returns(s, "clockIn") \/ Returns(s, "clockOut")) =>
              /\ returned'.success
              /\ demoState'[calls[s].workerId] =
                    IF calls[s].op = "clockIn"
                    THEN [isClockedIn |-> TRUE,
                          clockInTime |-> toISO(calls[s].due - ClockDelay)]
                    ELSE [isClockedIn |-> FALSE, clockInTime |-> NoTime]]_vars

\* A clockIn made while another clock operation of the worker was in flight
\* has written last, after the clock moved on: both returned, and the state
\* holds the instant of its call.
C25_Witness ==
    /\ DEMO_MODE
    /\ returned.op = "clockIn" /\ returned.success /\ returned.overlaps
    /\ Len(PunchesOf(demoPunches, returned.workerId)) = 2
    /\ demoState[returned.workerId] = [isClockedIn |-> TRUE, clockInTime |-> returned.called]
    /\ getTime(returned.called) < now
    /\ \A s \in Slots : calls[s] = Idle

\* the workers createWorker has created with this PIN (the seeded ones come
\* first in either table)
CreatedWith(pin) ==
    IF DEMO_MODE
    THEN {identityOf(DEMO_WORKERS[i]) :
             i \in {j \in Len(SeedWorkers) + 1..Len(DEMO_WORKERS) : DEMO_WORKERS[j].pin = pin}}
    ELSE {identityOf(store_workers[i]) :
             i \in {j \in Len(SeedRows) + 1..Len(store_workers) : store_workers[j].pin = pin}}

\* This step is the return of authenticateWorker(pin).
authenticateWorkerReturns(pin) ==
    /\ returned'.op = "authenticateWorker" /\ returned'.pin = pin
    /\ \/ started' = started + 1 /\ calls' = calls
       \/ \E s \in Slots : Returns(s, "authenticateWorker")

CreatedCanSignIn ==
    \A pin \in EnrollPins :
        authenticateWorkerReturns(pin) =>
            \A w \in CreatedWith(pin) :
                /\ returned'.success
                /\ returned'.isAdmin = FALSE
                /\ returned'.worker.id = w.id /\ returned'.worker.role = w.role

\* C27: every worker createWorker(pin, name, role) has created can sign in as
\* themselves afterwards: authenticateWorker(pin) returns success with that
\* worker's id and role and isAdmin = false, for every PIN createWorker
\* accepts.
C27_CreatedWorkerAuthenticates == [][CreatedCanSignIn]_vars

\* the worker holds a code equal to the presented one, and every such code
\* is within its ten minutes
CorrectCodeInWindow(workerId, code) ==
    LET matching == {h \in CodesHeldFor(workerId) : h.code = code} IN
    matching # {} /\ \A h \in matching : now <= h.expiresAt

FailureKeepsCodes ==
    \A s \in Slots :
        Returns(s, "verifyCode") /\ ~returned'.success =>
            /\ demoVerificationCodes' = demoVerificationCodes
            /\ store_codes' = store_codes

AutoSubmitOwed == completion.reached /\ completion.invoked = 0

\* no completion is answered by more than one onSubmit call
AutoSubmitAtMostOnce == completion.invoked <= 1

\* C30: each time the value reaches maxLength while isLoading is false,
\* onSubmit is eventually invoked, and exactly once for that completion,
\* whatever isLoading and the onSubmit prop do before the delay has elapsed.
\* A completion whose value has since dropped below maxLength is excused.
C30_AutoSubmitExactlyOnce ==
    /\ []AutoSubmitAtMostOnce
    /\ AutoSubmitOwed ~> (~AutoSubmitOwed \/ Len(value) < maxLength)

=============================================================================
